---- MODULE Spec2Model ----
(***************************************************************************)
(* Human Text Editor: the typing worker (TypingWorker), the diff helpers   *)
(* it runs on, and the controller (MainWindow) that starts it and sends    *)
(* it pause / skip / jump / stop requests.                                 *)
(*                                                                         *)
(* Texts are sequences of one-character strings.  Python indices are kept  *)
(* 0-based: position p of a text s is s[p+1].                              *)
(***************************************************************************)
EXTENDS Integers, Sequences, FiniteSets, TLC

(***************************************************************************)
(* Bounds of the model                                                     *)
(***************************************************************************)
MaxCmds == 3        \* controller commands issued during one session
MaxDelay == 1       \* largest start delay (seconds of countdown)
MaxLen == 2         \* longest text of the exhaustive text sets
MaxWorkers == 3     \* workers the controller may create (lifecycle spec)
MaxFnLen == 3       \* longest text the diff helpers are called on
MaxCalls == 2       \* delay computations made by one worker (timing spec)

None == -1          \* Python's None for the optional jump target

(***************************************************************************)
(* Small helpers over sequences (Python slices)                            *)
(***************************************************************************)
Min(a, b) == IF a <= b THEN a ELSE b
Max(a, b) == IF a >= b THEN a ELSE b

\* s[lo:hi] of Python, 0-based and half open
Slice(s, lo, hi) == SubSeq(s, lo + 1, hi)

\* s[lo:] of Python
From(s, lo) == SubSeq(s, lo + 1, Len(s))

RECURSIVE Concat(_)
Concat(ss) == IF ss = <<>> THEN <<>> ELSE Head(ss) \o Concat(Tail(ss))

RECURSIVE SumSeq(_)
SumSeq(ns) == IF ns = <<>> THEN 0 ELSE Head(ns) + SumSeq(Tail(ns))

(***************************************************************************)
(* Character classes                                                       *)
(***************************************************************************)
\* the worker's  whitespace = {" ", "\n", "\t"}
whitespace == {" ", "\n", "\t"}

\* the regular expression class \s of  re.findall(r'\S+|\s+', text)
RegexSpace == {" ", "\n", "\t", "\r", "\f"}

\* str.isalpha() on the characters of the model's alphabet
isalpha(ch) ==
    ch \in {"a", "b", "c", "q", "w", "s", "z", "v", "g", "h", "n", "i"}

\* _is_sentence_end
is_sentence_end(ch) == ch \in {".", "!", "?", "\n"}

\* _KEYBOARD_NEIGHBORS restricted to the letters of the model's alphabet;
\* _nearby_key picks one of them at random
nearby_key(ch) ==
    IF ch = "a" THEN {"q", "w", "s", "z"}
    ELSE IF ch = "b" THEN {"v", "g", "h", "n"}
    ELSE IF ch = "c" THEN {"x", "d", "f", "v"}
    ELSE IF ch = "h" THEN {"y", "u", "j", "g", "n", "b"}
    ELSE IF ch = "i" THEN {"u", "o", "j", "k"}
    ELSE {"a", "b", "c"}

(***************************************************************************)
(* _word_tokenize: maximal runs of whitespace / non-whitespace             *)
(***************************************************************************)
RunLen(s) ==
    LET c == s[1] \in RegexSpace
    IN  CHOOSE n \in 1..Len(s) :
            /\ \A m \in 1..n : (s[m] \in RegexSpace) = c
            /\ (n = Len(s) \/ (s[n + 1] \in RegexSpace) # c)

\* the tokens of  re.findall(r'\S+', text): the whitespace runs are lost
RECURSIVE WordsOnly(_)
WordsOnly(s) ==
    IF s = <<>> THEN <<>>
    ELSE LET n == RunLen(s)
         IN  (IF s[1] \in RegexSpace THEN <<>> ELSE <<SubSeq(s, 1, n)>>)
             \o WordsOnly(SubSeq(s, n + 1, Len(s)))

RECURSIVE word_tokenize(_)
word_tokenize(s) ==
    IF s = <<>> THEN <<>>
    ELSE LET n == RunLen(s)
         IN  <<SubSeq(s, 1, n)>> \o word_tokenize(SubSeq(s, n + 1, Len(s)))

(***************************************************************************)
(* difflib.SequenceMatcher(None, a, b) without junk (autojunk only applies *)
(* to sequences of 200 elements or more)                                   *)
(***************************************************************************)
\* length of the longest common run starting at a[i], b[j] (0-based) that
\* stays inside a[..ahi), b[..bhi)
RECURSIVE MatchLen(_, _, _, _, _, _)
MatchLen(a, b, i, j, ahi, bhi) ==
    IF i < ahi /\ j < bhi /\ a[i + 1] = b[j + 1]
    THEN 1 + MatchLen(a, b, i + 1, j + 1, ahi, bhi)
    ELSE 0

\* find_longest_match: the longest block; of those the one starting earliest
\* in a; of those the one starting earliest in b; (alo, blo, 0) if none
find_longest_match(a, b, alo, ahi, blo, bhi) ==
    LET cands == {<<i, j>> \in (alo..(ahi - 1)) \X (blo..(bhi - 1)) :
                      MatchLen(a, b, i, j, ahi, bhi) > 0}
    IN  IF cands = {} THEN <<alo, blo, 0>>
        ELSE LET len(c) == MatchLen(a, b, c[1], c[2], ahi, bhi)
                 best == CHOOSE c \in cands :
                            \A d \in cands :
                                \/ len(c) > len(d)
                                \/ /\ len(c) = len(d)
                                   /\ \/ c[1] < d[1]
                                      \/ c[1] = d[1] /\ c[2] <= d[2]
             IN  <<best[1], best[2], len(best)>>

\* the recursion of get_matching_blocks, blocks in increasing order
RECURSIVE MatchBlocks(_, _, _, _, _, _)
MatchBlocks(a, b, alo, ahi, blo, bhi) ==
    LET m == find_longest_match(a, b, alo, ahi, blo, bhi)
        i == m[1]
        j == m[2]
        k == m[3]
    IN  IF k = 0 THEN <<>>
        ELSE (IF alo < i /\ blo < j
                  THEN MatchBlocks(a, b, alo, i, blo, j) ELSE <<>>)
             \o <<m>>
             \o (IF i + k < ahi /\ j + k < bhi
                  THEN MatchBlocks(a, b, i + k, ahi, j + k, bhi) ELSE <<>>)

\* get_matching_blocks collapses adjacent blocks and appends (la, lb, 0)
RECURSIVE Collapse(_, _)
Collapse(cur, rest) ==
    IF rest = <<>> THEN (IF cur[3] > 0 THEN <<cur>> ELSE <<>>)
    ELSE LET nx == Head(rest)
         IN  IF cur[1] + cur[3] = nx[1] /\ cur[2] + cur[3] = nx[2]
             THEN Collapse(<<cur[1], cur[2], cur[3] + nx[3]>>, Tail(rest))
             ELSE (IF cur[3] > 0 THEN <<cur>> ELSE <<>>)
                  \o Collapse(nx, Tail(rest))

get_matching_blocks(a, b) ==
    Collapse(<<0, 0, 0>>, MatchBlocks(a, b, 0, Len(a), 0, Len(b)))
        \o << <<Len(a), Len(b), 0>> >>

\* get_opcodes: <<tag, i1, i2, j1, j2>> tuples
RECURSIVE OpcodesFrom(_, _, _)
OpcodesFrom(blocks, i, j) ==
    IF blocks = <<>> THEN <<>>
    ELSE LET ai == Head(blocks)[1]
             bj == Head(blocks)[2]
             size == Head(blocks)[3]
             tag == IF i < ai /\ j < bj THEN "replace"
                    ELSE IF i < ai THEN "delete"
                    ELSE IF j < bj THEN "insert"
                    ELSE ""
         IN  (IF tag # "" THEN << <<tag, i, ai, j, bj>> >> ELSE <<>>)
             \o (IF size > 0
                     THEN << <<"equal", ai, ai + size, bj, bj + size>> >>
                     ELSE <<>>)
             \o OpcodesFrom(Tail(blocks), ai + size, bj + size)

get_opcodes(a, b) == OpcodesFrom(get_matching_blocks(a, b), 0, 0)

(***************************************************************************)
(* DiffOp and _compute_diff                                                *)
(***************************************************************************)
DiffOp(kind, old_text, new_text) ==
    [kind |-> kind, old_text |-> old_text, new_text |-> new_text]

compute_diff(original, replacement) ==
    LET old_tokens == word_tokenize(original)
        new_tokens == word_tokenize(replacement)
        codes == get_opcodes(old_tokens, new_tokens)
        mk(c) ==
            LET old_chunk == Concat(Slice(old_tokens, c[2], c[3]))
                new_chunk == Concat(Slice(new_tokens, c[4], c[5]))
            IN  IF c[1] = "equal" THEN DiffOp("equal", old_chunk, new_chunk)
                ELSE IF c[1] = "insert" THEN DiffOp("insert", <<>>, new_chunk)
                ELSE IF c[1] = "delete" THEN DiffOp("delete", old_chunk, <<>>)
                ELSE DiffOp("replace", old_chunk, new_chunk)
    IN  [n \in 1..Len(codes) |-> mk(codes[n])]

(***************************************************************************)
(* _map_old_index_to_new_index                                             *)
(***************************************************************************)
\* int(round(num / den)) of Python for num, den >= 0: round half to even
RoundDiv(num, den) ==
    LET q == num \div den
        r == num % den
    IN  IF 2 * r < den THEN q
        ELSE IF 2 * r > den THEN q + 1
        ELSE IF q % 2 = 0 THEN q ELSE q + 1

RECURSIVE MapInCodes(_, _, _)
MapInCodes(codes, old_index, new_len) ==
    IF codes = <<>> THEN new_len
    ELSE LET c == Head(codes)
             tag == c[1]
             i1 == c[2]
             i2 == c[3]
             j1 == c[4]
             j2 == c[5]
         IN  IF i1 <= old_index /\ old_index < i2 /\ tag = "equal"
                 THEN j1 + (old_index - i1)
             ELSE IF i1 <= old_index /\ old_index < i2 /\ tag = "replace"
                 THEN j1 + RoundDiv((old_index - i1) * Max(0, j2 - j1),
                                    Max(1, i2 - i1))
             ELSE IF i1 <= old_index /\ old_index < i2 /\ tag = "delete"
                 THEN j1
             ELSE MapInCodes(Tail(codes), old_index, new_len)

\* the function without its first early return
MapNoZeroGuard(old_text, new_text, old_index) ==
    IF old_index >= Len(old_text) THEN Len(new_text)
    ELSE MapInCodes(get_opcodes(old_text, new_text), old_index, Len(new_text))

map_old_index_to_new_index(old_text, new_text, old_index) ==
    IF old_index <= 0 THEN 0
    ELSE IF old_index >= Len(old_text) THEN Len(new_text)
    ELSE MapInCodes(get_opcodes(old_text, new_text), old_index, Len(new_text))

(***************************************************************************)
(* _op_work and _trim_ops_for_start                                        *)
(***************************************************************************)
op_work(op) ==
    IF op.kind = "equal" THEN Len(op.new_text)
    ELSE IF op.kind = "insert" THEN Len(op.new_text)
    ELSE IF op.kind = "delete" THEN Len(op.old_text)
    ELSE IF op.kind = "replace" THEN Len(op.old_text) + Len(op.new_text)
    ELSE 0

\* old_len taken from the text of the op whatever its kind
OldLenAnyKind(op) ==
    IF op.kind = "insert" THEN Len(op.new_text) ELSE Len(op.old_text)

\* old_len of the trim loop
OldLen(op) ==
    IF op.kind \in {"equal", "delete", "replace"} THEN Len(op.old_text) ELSE 0

\* TrimPartial counting, for a Replace op, the old text alone as skipped
TrimPartialOldOnly(op, offset) ==
    IF op.kind = "replace"
        THEN LET new_offset ==
                     map_old_index_to_new_index(op.old_text, op.new_text, offset)
             IN  << <<DiffOp("replace", From(op.old_text, offset),
                             From(op.new_text, new_offset))>>, offset >>
    ELSE IF op.kind \in {"equal", "delete"}
        THEN << <<DiffOp(op.kind, From(op.old_text, offset),
                         From(op.new_text, offset))>>, offset >>
    ELSE << <<>>, Len(op.new_text) >>

\* the op a start position inside it is sliced to: <<ops kept, work skipped>>
TrimPartial(op, offset) ==
    IF op.kind = "equal"
        THEN << <<DiffOp("equal", From(op.old_text, offset),
                         From(op.new_text, offset))>>, offset >>
    ELSE IF op.kind = "delete"
        THEN << <<DiffOp("delete", From(op.old_text, offset), <<>>)>>, offset >>
    ELSE IF op.kind = "replace"
        THEN LET new_offset ==
                     map_old_index_to_new_index(op.old_text, op.new_text, offset)
             IN  << <<DiffOp("replace", From(op.old_text, offset),
                             From(op.new_text, new_offset))>>,
                    offset + new_offset >>
    ELSE << <<>>, Len(op.new_text) >>

\* TrimLoop with  skipped_work = ...  in place of  skipped_work += ...  for
\* the op the start position falls in
RECURSIVE TrimLoopAssign(_, _, _, _, _)
TrimLoopAssign(ops, start_pos, i, cursor, skipped_work) ==
    IF i >= Len(ops) THEN << <<>>, skipped_work >>
    ELSE LET op == ops[i + 1]
             old_len == IF op.kind \in {"equal", "delete", "replace"}
                            THEN Len(op.old_text) ELSE 0
         IN  IF cursor + old_len <= start_pos
                 THEN TrimLoopAssign(ops, start_pos, i + 1, cursor + old_len,
                                     skipped_work + op_work(op))
             ELSE IF start_pos <= cursor
                 THEN << From(ops, i), skipped_work >>
             ELSE LET part == TrimPartial(op, start_pos - cursor)
                  IN  << part[1] \o From(ops, i + 1), part[2] >>

\* the while loop of _trim_ops_for_start from op i (0-based)
RECURSIVE TrimLoop(_, _, _, _, _)
TrimLoop(ops, start_pos, i, cursor, skipped_work) ==
    IF i >= Len(ops) THEN << <<>>, skipped_work >>
    ELSE LET op == ops[i + 1]
             old_len == OldLen(op)
         IN  IF cursor + old_len <= start_pos
                 THEN TrimLoop(ops, start_pos, i + 1, cursor + old_len,
                               skipped_work + op_work(op))
             ELSE IF start_pos <= cursor
                 THEN << From(ops, i), skipped_work >>
             ELSE LET part == TrimPartial(op, start_pos - cursor)
                  IN  << part[1] \o From(ops, i + 1), skipped_work + part[2] >>

\* the function without its early return for start_pos <= 0
TrimNoGuard(ops, start_pos) == TrimLoop(ops, start_pos, 0, 0, 0)

\* returns <<trimmed, skipped_work>>
trim_ops_for_start(ops, start_pos) ==
    IF start_pos <= 0 THEN << ops, 0 >>
    ELSE TrimLoop(ops, start_pos, 0, 0, 0)

(***************************************************************************)
(* State                                                                   *)
(***************************************************************************)
VARIABLES
    \* the session the controller configured (TypingWorker.__init__)
    mode,               \* "fresh" or "replace"
    text,               \* text to type (the replacement text in Replace mode)
    orig,               \* the original text the script was computed from
    diff_ops,           \* the edit script, <<>> when there is none
    is_bot,             \* _is_bot
    typo_rate,          \* options.typo_rate
    cmd_budget,         \* how many commands the controller issues at most
    log_keys,           \* whether the injection calls are recorded in keylog
    start_delay,        \* options.start_delay
    \* fields of the worker shared with the controller
    stopped, paused, skip, jump_to, pause_notified, cursor_pos, start_pos,
    words_since_pause,
    \* the worker thread: position, return labels of the calls in progress,
    \* local variables
    pc, stack, loc,
    \* signals emitted by the worker
    finished,           \* number of finished emissions
    status,             \* last status text
    terminal,           \* terminal statuses emitted, in order
    logs,               \* log entries emitted that tell how the run ended
    progress,           \* last progress value, None before the first
    progress_prev_max,  \* largest progress value emitted before the last one
    progress_at,        \* the place in the code that emitted the last one
    cursor_sig,         \* last cursor position emitted, None before the first
    pause_infos,        \* number of pause_info emissions
    \* the editor the keystrokes go to
    buf, caret, sel, keys,
    keylog,             \* the injection calls made so far, in order
    jumped,             \* the offsets of the Fresh jumps consumed since the
                        \* last injection call (recorded with keylog)
    \* the controller
    worker_ref,         \* MainWindow._worker is not None
    ctl,                \* position inside the handler being run
    cmds,               \* commands issued so far
    hist,               \* which requests were ever made
    \* pause episodes
    ep_notes,           \* pause_info emissions since paused was last set
    last_ep,            \* the last episode that was closed by a resume
    ep_blocked,         \* the worker slept in the pause loop since paused was set
    skip_while_paused,  \* paused was set when the worker took the Skip
    \* the workers of one run of the application
    workers,            \* every TypingWorker created so far, oldest first
    ui_worker,          \* MainWindow._worker: an index into workers, or None
    fin_queue,          \* finished signals queued for the UI thread
    start_rejected,     \* _on_start returned at its guard at least once
    passes,             \* <<start offset, progress>> of each Replace pass
    \* the diff helpers called on their own
    fn,                 \* the last call: function, arguments and result
    tm                  \* the worker's options.wpm, options.variability,
                        \* _tempo, _short_bias, _long_bias and _last_delay

cfgVars == <<mode, text, orig, diff_ops, is_bot, typo_rate, start_delay,
             cmd_budget, log_keys>>
flagVars == <<stopped, paused, skip, jump_to, pause_notified, start_pos>>
wVars == <<pc, stack, loc, words_since_pause, cursor_pos>>
progVars == <<progress, progress_prev_max, progress_at>>
sigVars == <<finished, status, terminal, logs, progVars, cursor_sig,
             pause_infos>>
edVars == <<buf, caret, sel, keys, keylog, jumped>>
ctlVars == <<worker_ref, ctl, cmds, hist>>
epVars == <<ep_notes, last_ep, ep_blocked, skip_while_paused>>
lifeVars == <<workers, ui_worker, fin_queue, start_rejected>>
fnVars == <<fn, tm>>
sessionVars == <<cfgVars, flagVars, wVars, sigVars, edVars, ctlVars, epVars,
                 passes>>
vars == <<sessionVars, lifeVars, fnVars>>

\* local variables of the worker's frames
Loc0 ==
    [cd |-> 0, idx |-> 0, done |-> 0, total |-> 0, ch |-> "", j |-> 0,
     word_end |-> 0, chars_after_typo |-> 0, bs |-> 0, prev_was_word |-> FALSE,
     pos |-> 0, tch |-> "", wait |-> "", jump |-> None,
     ops |-> <<>>, i |-> 0, k |-> 0, restart |-> FALSE, last_change_idx |-> -1,
     cursor_in_original |-> 0, total_work |-> 1, total_old_len |-> 0,
     start_pos |-> 0]

\* int(done / total * 100); the float product truncates to the exact floor
\* for every total below 50
Pct(done, total) == (done * 100) \div total

(***************************************************************************)
(* Calls and returns of the worker                                         *)
(***************************************************************************)
Goto(l) == pc' = l /\ stack' = stack
Call(l, ret) == pc' = l /\ stack' = <<ret>> \o stack
Return == pc' = Head(stack) /\ stack' = Tail(stack)

(***************************************************************************)
(* Signal emissions                                                        *)
(***************************************************************************)
EmitProgress(p, site) ==
    /\ progress' = p
    /\ progress_prev_max' = Max(progress_prev_max, progress)
    /\ progress_at' = site

\* _emit_cursor
EmitCursor(p) == cursor_pos' = p /\ cursor_sig' = p

(***************************************************************************)
(* The editor that receives the keystrokes (pyautogui)                     *)
(***************************************************************************)
\* a character is typed at the caret and replaces the selection
EdType(b, c, s, ch) ==
    [buf |-> Slice(b, 0, c) \o <<ch>> \o From(b, c + s), caret |-> c + 1, sel |-> 0]

\* one press of "right": collapses a selection to its end, else moves
EdRight1(e) ==
    IF e.sel > 0 THEN [e EXCEPT !.caret = e.caret + e.sel, !.sel = 0]
    ELSE [e EXCEPT !.caret = Min(e.caret + 1, Len(e.buf))]

\* one press of "delete": removes the selection, else the next character
EdDelete1(e) ==
    IF e.sel > 0
        THEN [e EXCEPT !.buf = Slice(e.buf, 0, e.caret) \o From(e.buf, e.caret + e.sel),
                       !.sel = 0]
    ELSE [e EXCEPT !.buf = Slice(e.buf, 0, e.caret) \o From(e.buf, e.caret + 1)]

\* one press of "backspace": removes the selection, else the previous character
EdBackspace1(e) ==
    IF e.sel > 0
        THEN [e EXCEPT !.buf = Slice(e.buf, 0, e.caret) \o From(e.buf, e.caret + e.sel),
                       !.sel = 0]
    ELSE IF e.caret > 0
        THEN [e EXCEPT !.buf = Slice(e.buf, 0, e.caret - 1) \o From(e.buf, e.caret),
                       !.caret = e.caret - 1]
    ELSE e

\* shift+right extends the selection by one character
EdShiftRight(e) == [e EXCEPT !.sel = Min(e.sel + 1, Len(e.buf) - e.caret)]

RECURSIVE EdRepeat(_, _, _)
EdRepeat(e, n, key) ==
    IF n = 0 THEN e
    ELSE EdRepeat(IF key = "right" THEN EdRight1(e) ELSE EdDelete1(e), n - 1, key)

Ed == [buf |-> buf, caret |-> caret, sel |-> sel]

\* one pyautogui call: key pressed n times, or the character ch written
Key(key, ch, n) == [key |-> key, ch |-> ch, n |-> n]

\* one injection call leaves the editor as e
Inject(e, call) ==
    /\ buf' = e.buf
    /\ caret' = e.caret
    /\ sel' = e.sel
    /\ keys' = keys + 1
    /\ keylog' = IF log_keys THEN Append(keylog, call) ELSE keylog
    /\ jumped' = <<>>

(***************************************************************************)
(* TypingWorker._run: countdown, dispatch, terminal status, finished       *)
(***************************************************************************)
\* the countdown finds _stopped set: emits finished and returns from inside
\* the try block, so the finally clause still runs
RunCountdownStopped ==
    /\ pc = "run" /\ loc.cd > 0 /\ stopped
    /\ finished' = finished + 1
    /\ Goto("finally")
    /\ UNCHANGED <<fnVars, lifeVars, cfgVars, flagVars, loc,
                   words_since_pause, cursor_pos, status, terminal,
                   logs, progVars, cursor_sig, pause_infos, edVars,
                   ctlVars, epVars, passes>>

\* one second of countdown: status "Starting in i", then _sleep(1)
RunCountdownTick ==
    /\ pc = "run" /\ loc.cd > 0 /\ ~stopped
    /\ status' = "Starting"
    /\ loc' = [loc EXCEPT !.cd = loc.cd - 1, !.wait = "countdown"]
    /\ Call("wait", "run")
    /\ UNCHANGED <<fnVars, lifeVars, cfgVars, flagVars, words_since_pause,
                   cursor_pos, finished, terminal, logs, progVars,
                   cursor_sig, pause_infos, edVars, ctlVars, epVars,
                   passes>>

\* the branch of _run on the mode
RunTarget == IF mode = "replace" /\ diff_ops # <<>> THEN "rr_init" ELSE "rf_init"

\* countdown over: status "Typing" and _run_replace or _run_fresh
RunBody ==
    /\ pc = "run" /\ loc.cd = 0
    /\ status' = "Typing"
    /\ Call(RunTarget, "run_tail")
    /\ UNCHANGED <<fnVars, lifeVars, cfgVars, flagVars, loc,
                   words_since_pause, cursor_pos, finished, terminal,
                   logs, progVars, cursor_sig, pause_infos, edVars,
                   ctlVars, epVars, passes>>

\* the terminal status after the body returned
TerminalStatus == IF stopped THEN "Stopped" ELSE "Done"

\* the log entry that follows the terminal status
TerminalLog == IF stopped THEN "Typing stopped." ELSE "Typing finished."

RunTail ==
    /\ pc = "run_tail"
    /\ status' = TerminalStatus
    /\ terminal' = Append(terminal, TerminalStatus)
    /\ logs' = logs \cup {TerminalLog}
    /\ Goto("finally")
    /\ UNCHANGED <<fnVars, lifeVars, cfgVars, flagVars, loc,
                   words_since_pause, cursor_pos, finished, progVars,
                   cursor_sig, pause_infos, edVars, ctlVars, epVars,
                   passes>>

\* finally: signals.finished.emit()
RunFinally ==
    /\ pc = "finally"
    /\ finished' = finished + 1
    /\ pc' = "exit"
    /\ stack' = <<>>
    /\ UNCHANGED <<fnVars, lifeVars, cfgVars, flagVars, loc,
                   words_since_pause, cursor_pos, status, terminal,
                   logs, progVars, cursor_sig, pause_infos, edVars,
                   ctlVars, epVars, passes>>

(***************************************************************************)
(* The polling loops: _sleep, and the loops of _thinking_pause and         *)
(* _maybe_word_pause.  loc.wait tells which wait is running.               *)
(***************************************************************************)
\* the end time is reached: the loop ends and the tail of the function runs
WaitExpire ==
    /\ pc = "wait"
    /\ status' = IF loc.wait \in {"think", "word"} THEN "Typing" ELSE status
    /\ words_since_pause' = IF loc.wait = "word" THEN 0 ELSE words_since_pause
    /\ Return
    /\ UNCHANGED <<fnVars, lifeVars, cfgVars, flagVars, loc, cursor_pos,
                   finished, terminal, logs, progVars, cursor_sig,
                   pause_infos, edVars, ctlVars, epVars, passes>>

\* if self._stopped: return
WaitStopped ==
    /\ pc = "wait" /\ stopped
    /\ Return
    /\ UNCHANGED <<fnVars, lifeVars, cfgVars, flagVars, loc,
                   words_since_pause, cursor_pos, sigVars, edVars,
                   ctlVars, epVars, passes>>

\* if self._paused: self._handle_pause(self._cursor_pos)
WaitPaused ==
    /\ pc = "wait" /\ ~stopped /\ paused
    /\ loc' = [loc EXCEPT !.pos = cursor_pos]
    /\ Call("hp_check", "wait")
    /\ UNCHANGED <<fnVars, lifeVars, cfgVars, flagVars, words_since_pause,
                   cursor_pos, sigVars, edVars, ctlVars, epVars,
                   passes>>

(***************************************************************************)
(* _handle_pause(pos)                                                      *)
(***************************************************************************)
\* if self._paused ...
HandlePauseCheck ==
    /\ pc = "hp_check"
    /\ Goto(IF paused THEN "hp_check2" ELSE "hp_loop")
    /\ UNCHANGED <<fnVars, lifeVars, cfgVars, flagVars, loc,
                   words_since_pause, cursor_pos, sigVars, edVars,
                   ctlVars, epVars, passes>>

\* ... and not self._pause_notified: emit pause_info and status "Paused"
HandlePauseNotify ==
    /\ pc = "hp_check2"
    /\ IF ~pause_notified
          THEN /\ pause_infos' = pause_infos + 1
               /\ ep_notes' = ep_notes + 1
               /\ status' = "Paused"
               /\ Goto("hp_set")
          ELSE /\ UNCHANGED <<pause_infos, ep_notes, status>>
               /\ Goto("hp_loop")
    /\ UNCHANGED <<fnVars, lifeVars, cfgVars, flagVars, loc,
                   words_since_pause, cursor_pos, finished, terminal,
                   logs, progVars, cursor_sig, edVars, ctlVars,
                   last_ep, ep_blocked, skip_while_paused, passes>>

\* self._pause_notified = True
HandlePauseSet ==
    /\ pc = "hp_set"
    /\ pause_notified' = TRUE
    /\ Goto("hp_loop")
    /\ UNCHANGED <<fnVars, lifeVars, cfgVars, stopped, paused, skip, jump_to,
                   start_pos, loc, words_since_pause, cursor_pos,
                   sigVars, edVars, ctlVars, epVars, passes>>

\* the loop condition without the test of the stopped flag
HandlePauseBlockedNoStop == paused

\* the condition of  while self._paused and not self._stopped
HandlePauseBlocked == paused /\ ~stopped

\* the condition holds: time.sleep(0.05) and test it again
HandlePausePoll ==
    /\ pc = "hp_loop" /\ HandlePauseBlocked
    /\ ep_blocked' = TRUE
    /\ UNCHANGED <<fnVars, lifeVars, cfgVars, flagVars, wVars, sigVars,
                   edVars, ctlVars, ep_notes, last_ep,
                   skip_while_paused, passes>>

\* the loop ends
HandlePauseReturn ==
    /\ pc = "hp_loop" /\ ~HandlePauseBlocked
    /\ Return
    /\ UNCHANGED <<fnVars, lifeVars, cfgVars, flagVars, loc,
                   words_since_pause, cursor_pos, sigVars, edVars,
                   ctlVars, epVars, passes>>

(***************************************************************************)
(* _type_char(ch), ch in loc.tch                                           *)
(***************************************************************************)
TypeCharEntry ==
    /\ pc = "tc"
    /\ IF stopped THEN Return /\ UNCHANGED loc
       ELSE IF paused
           THEN /\ Call("hp_check", "tc2")
                /\ loc' = [loc EXCEPT !.pos = cursor_pos]
       ELSE Goto("tc_key") /\ UNCHANGED loc
    /\ UNCHANGED <<fnVars, lifeVars, cfgVars, flagVars, words_since_pause,
                   cursor_pos, sigVars, edVars, ctlVars, epVars,
                   passes>>

\* after _handle_pause: if self._stopped: return
TypeCharAfterPause ==
    /\ pc = "tc2"
    /\ IF stopped THEN Return ELSE Goto("tc_key")
    /\ UNCHANGED <<fnVars, lifeVars, cfgVars, flagVars, loc,
                   words_since_pause, cursor_pos, sigVars, edVars,
                   ctlVars, epVars, passes>>

\* the pyautogui call: the character lands in the editor
TypeCharKey ==
    /\ pc = "tc_key"
    /\ Inject(EdType(buf, caret, sel, loc.tch), Key("write", loc.tch, 1))
    /\ Return
    /\ UNCHANGED <<fnVars, lifeVars, cfgVars, flagVars, loc,
                   words_since_pause, cursor_pos, sigVars, ctlVars,
                   epVars, passes>>

(***************************************************************************)
(* Delays: _char_delay and _scaled_delay return 0 in Bot mode, and         *)
(* _sleep(0) returns without polling; in Human mode they are positive      *)
(***************************************************************************)
Sleep(ret) == IF is_bot THEN Goto(ret) ELSE Call("wait", ret)
WaitTag(kind) == IF is_bot THEN loc.wait ELSE kind

\* random.random() < typo_rate / 100, random() in [0, 1)
TypoChoice == IF typo_rate <= 0 THEN {FALSE}
              ELSE IF typo_rate >= 100 THEN {TRUE}
              ELSE {TRUE, FALSE}

\* the word cut after its first character
WordEndNext(t, i) == Min(i + 1, Len(t))

\* end of the word that contains position i: first whitespace at or after i
RECURSIVE WordEnd(_, _)
WordEnd(t, i) ==
    IF i < Len(t) /\ t[i + 1] \notin whitespace THEN WordEnd(t, i + 1) ELSE i

(***************************************************************************)
(* _run_fresh                                                              *)
(***************************************************************************)
FreshInit ==
    /\ pc = "rf_init"
    /\ LET total == Len(text)
           idx == Min(start_pos, total)
       IN  /\ loc' = [loc EXCEPT !.total = total, !.idx = idx, !.done = idx,
                                 !.prev_was_word = FALSE]
           /\ IF total > 0
                 THEN EmitCursor(idx) /\ EmitProgress(Pct(idx, total), "init")
                 ELSE UNCHANGED <<cursor_pos, cursor_sig, progVars>>
    /\ Goto("rf_loop")
    /\ UNCHANGED <<fnVars, lifeVars, cfgVars, flagVars, words_since_pause,
                   finished, status, terminal, logs, pause_infos,
                   edVars, ctlVars, epVars, passes>>

\* while idx < total: if self._stopped: break
FreshLoop ==
    /\ pc = "rf_loop"
    /\ IF loc.idx >= loc.total \/ stopped THEN Return ELSE Goto("rf_skip")
    /\ UNCHANGED <<fnVars, lifeVars, cfgVars, flagVars, loc,
                   words_since_pause, cursor_pos, sigVars, edVars,
                   ctlVars, epVars, passes>>

\* the skip branch placed after the jump branch: a pending jump wins
FreshSkipAfterJump == skip /\ jump_to = None

\* the test of the skip branch: it comes before the jump is looked at
FreshSkipTaken == skip

\* if self._skip: clear it and fast-type the remainder
FreshSkip ==
    /\ pc = "rf_skip"
    /\ IF FreshSkipTaken
          THEN /\ skip' = FALSE
               /\ loc' = [loc EXCEPT !.j = loc.idx]
               /\ skip_while_paused' = paused
               /\ Goto("ff_loop")
          ELSE /\ UNCHANGED <<skip, loc, skip_while_paused>>
               /\ Goto("rf_jump")
    /\ UNCHANGED <<fnVars, lifeVars, cfgVars, stopped, paused, jump_to,
                   pause_notified, start_pos, words_since_pause,
                   cursor_pos, sigVars, edVars, ctlVars, ep_notes,
                   last_ep, ep_blocked, passes>>

\* for rc in text[idx:]: if self._paused: self._handle_pause(idx)
FastForwardLoop ==
    /\ pc = "ff_loop"
    /\ IF loc.j >= loc.total
          THEN Goto("ff_end") /\ UNCHANGED loc
       ELSE IF paused
          THEN /\ Call("hp_check", "ff_after")
               /\ loc' = [loc EXCEPT !.pos = loc.idx]
       ELSE /\ Call("tc", "ff_typed")
            /\ loc' = [loc EXCEPT !.tch = text[loc.j + 1]]
    /\ UNCHANGED <<fnVars, lifeVars, cfgVars, flagVars, words_since_pause,
                   cursor_pos, sigVars, edVars, ctlVars, epVars,
                   passes>>

\* after the pause: if self._stopped: break, else self._type_char(rc)
FastForwardAfterPause ==
    /\ pc = "ff_after"
    /\ IF stopped
          THEN Goto("ff_end") /\ UNCHANGED loc
          ELSE /\ Call("tc", "ff_typed")
               /\ loc' = [loc EXCEPT !.tch = text[loc.j + 1]]
    /\ UNCHANGED <<fnVars, lifeVars, cfgVars, flagVars, words_since_pause,
                   cursor_pos, sigVars, edVars, ctlVars, epVars,
                   passes>>

\* done += 1, next rc
FastForwardTyped ==
    /\ pc = "ff_typed"
    /\ loc' = [loc EXCEPT !.done = loc.done + 1, !.j = loc.j + 1, !.tch = ""]
    /\ Goto("ff_loop")
    /\ UNCHANGED <<fnVars, lifeVars, cfgVars, flagVars, words_since_pause,
                   cursor_pos, sigVars, edVars, ctlVars, epVars,
                   passes>>

\* self._emit_cursor(total); progress 100; break
FastForwardEnd ==
    /\ pc = "ff_end"
    /\ EmitCursor(loc.total)
    /\ EmitProgress(100, "skip")
    /\ Return
    /\ UNCHANGED <<fnVars, lifeVars, cfgVars, flagVars, loc,
                   words_since_pause, finished, status, terminal, logs,
                   pause_infos, edVars, ctlVars, epVars, passes>>

\* _consume_jump, first half: read the pending target
FreshJumpRead ==
    /\ pc = "rf_jump"
    /\ IF jump_to = None
          THEN Goto("rf_pause") /\ UNCHANGED loc
          ELSE Goto("rf_jump2") /\ loc' = [loc EXCEPT !.jump = jump_to]
    /\ UNCHANGED <<fnVars, lifeVars, cfgVars, flagVars, words_since_pause,
                   cursor_pos, sigVars, edVars, ctlVars, epVars,
                   passes>>

\* JumpIndex without the clamp to the end of the text
JumpIndexUnclamped(jump, total) == jump

\* idx = min(jump, total)
JumpIndex(jump, total) == Min(jump, total)

\* FreshJumpSeek leaving the jump target as it is
FreshJumpSeekKeepsTarget ==
    /\ pc = "rf_jump2"
    /\ LET idx == JumpIndex(loc.jump, loc.total)
       IN  /\ loc' = [loc EXCEPT !.idx = idx, !.done = idx, !.jump = None,
                                 !.prev_was_word = FALSE]
           /\ EmitCursor(idx)
           /\ EmitProgress(IF loc.total > 0 THEN Pct(idx, loc.total) ELSE 100,
                           "jump")
    /\ words_since_pause' = 0
    /\ Goto("rf_loop")
    /\ UNCHANGED <<fnVars, lifeVars, cfgVars, flagVars, finished, status,
                   terminal, logs, pause_infos, edVars, ctlVars,
                   epVars, passes>>

\* _consume_jump, second half: clear the target; then the reseek
FreshJumpSeek ==
    /\ pc = "rf_jump2"
    /\ jump_to' = None
    /\ LET idx == JumpIndex(loc.jump, loc.total)
       IN  /\ loc' = [loc EXCEPT !.idx = idx, !.done = idx, !.jump = None,
                                 !.prev_was_word = FALSE]
           /\ EmitCursor(idx)
           /\ EmitProgress(IF loc.total > 0 THEN Pct(idx, loc.total) ELSE 100,
                           "jump")
           /\ jumped' = IF log_keys THEN Append(jumped, idx) ELSE jumped
    /\ words_since_pause' = 0
    /\ Goto("rf_loop")
    /\ UNCHANGED <<fnVars, lifeVars, cfgVars, stopped, paused, skip,
                   pause_notified, start_pos, finished, status,
                   terminal, logs, pause_infos, buf, caret, sel, keys,
                   keylog, ctlVars, epVars, passes>>

\* self._handle_pause(idx)
FreshPause ==
    /\ pc = "rf_pause"
    /\ loc' = [loc EXCEPT !.pos = loc.idx]
    /\ Call("hp_check", "rf_char")
    /\ UNCHANGED <<fnVars, lifeVars, cfgVars, flagVars, words_since_pause,
                   cursor_pos, sigVars, edVars, ctlVars, epVars,
                   passes>>

\* the typo test without the test of the character
TypoAppliesAnyChar(ch) == ~is_bot /\ typo_rate > 0

\* the typo test of the character at idx
TypoApplies(ch) == ~is_bot /\ typo_rate > 0 /\ isalpha(ch)

\* if self._stopped: break; else the character is typed, with or without typo
FreshChar ==
    /\ pc = "rf_char"
    /\ IF stopped
          THEN Return /\ UNCHANGED <<loc, status>>
          ELSE /\ status' = "Typing"
               /\ LET ch == text[loc.idx + 1]
                  IN  \E typo \in (IF TypoApplies(ch) THEN TypoChoice ELSE {FALSE}) :
                        IF typo
                        THEN \E wrong \in nearby_key(ch) :
                               /\ loc' = [loc EXCEPT !.ch = ch, !.tch = wrong,
                                             !.word_end = WordEnd(text, loc.idx),
                                             !.j = loc.idx + 1,
                                             !.chars_after_typo = 0]
                               /\ Call("tc", "ty_rest")
                        ELSE /\ loc' = [loc EXCEPT !.ch = ch, !.tch = ch]
                             /\ Call("tc", "rf_typed")
    /\ UNCHANGED <<fnVars, lifeVars, cfgVars, flagVars, words_since_pause,
                   cursor_pos, finished, terminal, logs, progVars,
                   cursor_sig, pause_infos, edVars, ctlVars, epVars,
                   passes>>

\* the normal character with idx advanced past the next character too
FreshTypedSkipsOne ==
    /\ pc = "rf_typed"
    /\ loc' = [loc EXCEPT !.done = loc.done + 1, !.idx = loc.idx + 2, !.tch = "",
                          !.wait = WaitTag("char")]
    /\ EmitCursor(loc.idx + 1)
    /\ EmitProgress(IF loc.total > 0 THEN Pct(loc.done + 1, loc.total) ELSE 100,
                    "char")
    /\ Sleep("rf_think")
    /\ UNCHANGED <<fnVars, lifeVars, cfgVars, flagVars, words_since_pause,
                   finished, status, terminal, logs, pause_infos,
                   edVars, ctlVars, epVars, passes>>

\* done += 1; idx += 1; cursor and progress; self._sleep(self._char_delay(..))
FreshTyped ==
    /\ pc = "rf_typed"
    /\ loc' = [loc EXCEPT !.done = loc.done + 1, !.idx = loc.idx + 1, !.tch = "",
                          !.wait = WaitTag("char")]
    /\ EmitCursor(loc.idx + 1)
    /\ EmitProgress(IF loc.total > 0 THEN Pct(loc.done + 1, loc.total) ELSE 100,
                    "char")
    /\ Sleep("rf_think")
    /\ UNCHANGED <<fnVars, lifeVars, cfgVars, flagVars, words_since_pause,
                   finished, status, terminal, logs, pause_infos,
                   edVars, ctlVars, epVars, passes>>

\* _thinking_pause(ch)
FreshThink ==
    /\ pc = "rf_think"
    /\ IF ~is_bot /\ is_sentence_end(loc.ch)
          THEN /\ status' = "Thinking"
               /\ loc' = [loc EXCEPT !.wait = "think"]
               /\ Call("wait", "rf_word")
          ELSE Goto("rf_word") /\ UNCHANGED <<status, loc>>
    /\ UNCHANGED <<fnVars, lifeVars, cfgVars, flagVars, words_since_pause,
                   cursor_pos, finished, terminal, logs, progVars,
                   cursor_sig, pause_infos, edVars, ctlVars, epVars,
                   passes>>

\* if ch is whitespace after a word: _maybe_word_pause(); then prev_was_word
FreshWord ==
    /\ pc = "rf_word"
    /\ LET after_word == loc.ch \in whitespace /\ loc.prev_was_word /\ ~is_bot
           pw == loc.ch \notin whitespace
       IN  \E pause \in (IF after_word THEN {TRUE, FALSE} ELSE {FALSE}) :
             /\ words_since_pause' =
                    IF after_word THEN words_since_pause + 1 ELSE words_since_pause
             /\ IF pause
                   THEN /\ status' = "Thinking"
                        /\ loc' = [loc EXCEPT !.prev_was_word = pw, !.ch = "",
                                              !.wait = "word"]
                        /\ Call("wait", "rf_loop")
                   ELSE /\ loc' = [loc EXCEPT !.prev_was_word = pw, !.ch = ""]
                        /\ Goto("rf_loop")
                        /\ UNCHANGED status
    /\ UNCHANGED <<fnVars, lifeVars, cfgVars, flagVars, cursor_pos, finished,
                   terminal, logs, progVars, cursor_sig, pause_infos,
                   edVars, ctlVars, epVars, passes>>

(***************************************************************************)
(* _run_fresh, the typo and its correction                                 *)
(***************************************************************************)
\* for j in range(idx + 1, word_end): if self._stopped: break; type text[j]
TypoRest ==
    /\ pc = "ty_rest"
    /\ IF loc.j >= loc.word_end \/ stopped
          THEN Goto("ty_notice") /\ UNCHANGED loc
          ELSE /\ loc' = [loc EXCEPT !.tch = text[loc.j + 1]]
               /\ Call("tc", "ty_rest2")
    /\ UNCHANGED <<fnVars, lifeVars, cfgVars, flagVars, words_since_pause,
                   cursor_pos, sigVars, edVars, ctlVars, epVars,
                   passes>>

\* chars_after_typo += 1; sleep
TypoRestTyped ==
    /\ pc = "ty_rest2"
    /\ loc' = [loc EXCEPT !.chars_after_typo = loc.chars_after_typo + 1,
                          !.j = loc.j + 1, !.tch = "", !.wait = WaitTag("char")]
    /\ Sleep("ty_rest")
    /\ UNCHANGED <<fnVars, lifeVars, cfgVars, flagVars, words_since_pause,
                   cursor_pos, sigVars, edVars, ctlVars, epVars,
                   passes>>

\* the backspaces for the characters typed after the typo, the typo left in
BackspacesShort(chars_after_typo) == chars_after_typo

\* backspaces_needed = chars_after_typo + 1
BackspacesNeeded(chars_after_typo) == chars_after_typo + 1

\* if self._stopped: break; pause to notice the mistake
TypoNotice ==
    /\ pc = "ty_notice"
    /\ IF stopped
          THEN Return /\ UNCHANGED loc
          ELSE /\ loc' = [loc EXCEPT !.bs = BackspacesNeeded(loc.chars_after_typo),
                                     !.wait = WaitTag("typo")]
               /\ Sleep("ty_bs")
    /\ UNCHANGED <<fnVars, lifeVars, cfgVars, flagVars, words_since_pause,
                   cursor_pos, sigVars, edVars, ctlVars, epVars,
                   passes>>

\* for _ in range(backspaces_needed): if self._stopped: break; backspace; sleep
TypoBackspace ==
    /\ pc = "ty_bs"
    /\ IF loc.bs = 0 \/ stopped
          THEN Goto("ty_find") /\ UNCHANGED <<loc, edVars>>
          ELSE /\ Inject(EdBackspace1(Ed), Key("backspace", "", 1))
               /\ loc' = [loc EXCEPT !.bs = loc.bs - 1, !.wait = WaitTag("typo")]
               /\ Sleep("ty_bs")
    /\ UNCHANGED <<fnVars, lifeVars, cfgVars, flagVars, words_since_pause,
                   cursor_pos, sigVars, ctlVars, epVars, passes>>

\* if self._stopped: break; pause to find the correct key
TypoFind ==
    /\ pc = "ty_find"
    /\ IF stopped
          THEN Return /\ UNCHANGED loc
          ELSE /\ loc' = [loc EXCEPT !.j = loc.idx, !.bs = 0,
                                     !.wait = WaitTag("typo")]
               /\ Sleep("ty_re")
    /\ UNCHANGED <<fnVars, lifeVars, cfgVars, flagVars, words_since_pause,
                   cursor_pos, sigVars, edVars, ctlVars, epVars,
                   passes>>

\* for j in range(idx, word_end): if self._stopped: break; type text[j];
\* after the loop idx = word_end; continue
TypoRetype ==
    /\ pc = "ty_re"
    /\ IF loc.j >= loc.word_end \/ stopped
          THEN /\ loc' = [loc EXCEPT !.idx = loc.word_end, !.ch = "",
                                     !.chars_after_typo = 0]
               /\ Goto("rf_loop")
          ELSE /\ loc' = [loc EXCEPT !.tch = text[loc.j + 1]]
               /\ Call("tc", "ty_re2")
    /\ UNCHANGED <<fnVars, lifeVars, cfgVars, flagVars, words_since_pause,
                   cursor_pos, sigVars, edVars, ctlVars, epVars,
                   passes>>

\* done += 1; cursor j + 1; progress; sleep
TypoRetyped ==
    /\ pc = "ty_re2"
    /\ loc' = [loc EXCEPT !.done = loc.done + 1, !.j = loc.j + 1, !.tch = "",
                          !.wait = WaitTag("char")]
    /\ EmitCursor(loc.j + 1)
    /\ EmitProgress(Pct(loc.done + 1, loc.total), "char")
    /\ Sleep("ty_re")
    /\ UNCHANGED <<fnVars, lifeVars, cfgVars, flagVars, words_since_pause,
                   finished, status, terminal, logs, pause_infos,
                   edVars, ctlVars, epVars, passes>>

(***************************************************************************)
(* The controller: MainWindow handlers, run on the UI thread               *)
(***************************************************************************)
Hist0 == [stop |-> FALSE, skip |-> FALSE, jump |-> FALSE, pause |-> FALSE,
          delivered |-> 0]
NoEpisode == [closed |-> FALSE, blocked |-> FALSE, notes |-> 0]

\* _on_pause, TypingWorker.pause first statement: self._paused = not self._paused
OnPause ==
    /\ worker_ref /\ ctl = "idle" /\ cmds < cmd_budget
    /\ cmds' = cmds + 1
    /\ paused' = ~paused
    /\ hist' = [hist EXCEPT !.pause = TRUE]
    /\ IF paused
          THEN \* a resume closes the episode
               /\ last_ep' = [closed |-> TRUE,
                              blocked |-> ep_blocked,
                              notes |-> ep_notes]
               /\ UNCHANGED <<ep_notes, ep_blocked, ctl>>
          ELSE /\ ep_notes' = 0
               /\ ep_blocked' = FALSE
               /\ ctl' = "pause2"
               /\ UNCHANGED last_ep
    /\ UNCHANGED <<fnVars, lifeVars, cfgVars, stopped, skip, jump_to,
                   pause_notified, start_pos, wVars, sigVars, edVars,
                   worker_ref, skip_while_paused, passes>>

\* TypingWorker.pause second statement: if self._paused: _pause_notified = False
OnPauseReset ==
    /\ ctl = "pause2"
    /\ ctl' = "idle"
    /\ pause_notified' = IF paused THEN FALSE ELSE pause_notified
    /\ UNCHANGED <<fnVars, lifeVars, cfgVars, stopped, paused, skip, jump_to,
                   start_pos, wVars, sigVars, edVars, worker_ref, cmds,
                   hist, epVars, passes>>

\* _on_stop
OnStop ==
    /\ worker_ref /\ ctl = "idle" /\ cmds < cmd_budget
    /\ cmds' = cmds + 1
    /\ stopped' = TRUE
    /\ hist' = [hist EXCEPT !.stop = TRUE]
    /\ UNCHANGED <<fnVars, lifeVars, cfgVars, paused, skip, jump_to,
                   pause_notified, start_pos, wVars, sigVars, edVars,
                   worker_ref, ctl, epVars, passes>>

\* _on_fresh_cursor_moved while the worker is paused, after the user made
\* the text of the editor longer than the text the worker types (the editors
\* are writable while paused) and put the cursor past its end
OnCursorMovedPastEnd ==
    /\ worker_ref /\ ctl = "idle" /\ cmds < cmd_budget
    /\ paused /\ mode = "fresh"
    /\ cmds' = cmds + 1
    /\ LET p == Len(text) + 1
       IN  /\ cursor_pos' = p
           /\ start_pos' = p
           /\ jump_to' = Max(0, p)
    /\ hist' = [hist EXCEPT !.jump = TRUE]
    /\ UNCHANGED <<fnVars, lifeVars, cfgVars, stopped, paused, skip,
                   pause_notified, pc, stack, loc, words_since_pause,
                   sigVars, edVars, worker_ref, ctl, epVars, passes>>

\* _on_skip
OnSkip ==
    /\ worker_ref /\ ctl = "idle" /\ cmds < cmd_budget
    /\ cmds' = cmds + 1
    /\ skip' = TRUE
    /\ hist' = [hist EXCEPT !.skip = @ \/ pc \notin {"run_tail", "finally", "exit"}]
    /\ UNCHANGED <<fnVars, lifeVars, cfgVars, stopped, paused, jump_to,
                   pause_notified, start_pos, wVars, sigVars, edVars,
                   worker_ref, ctl, epVars, passes>>

\* the text the user moves the cursor in: the Fresh text, or the original
JumpText == IF mode = "fresh" THEN text ELSE orig

\* _on_fresh_cursor_moved / _on_original_cursor_moved while the worker is
\* paused: _cursor_pos, _start_pos and request_jump(pos)
OnCursorMoved ==
    /\ worker_ref /\ ctl = "idle" /\ cmds < cmd_budget
    /\ paused
    /\ cmds' = cmds + 1
    /\ \E p \in 0..Len(JumpText) :
         /\ cursor_pos' = p
         /\ start_pos' = p
         /\ jump_to' = Max(0, p)
    /\ hist' = [hist EXCEPT !.jump = TRUE]
    /\ UNCHANGED <<fnVars, lifeVars, cfgVars, stopped, paused, skip,
                   pause_notified, pc, stack, loc, words_since_pause,
                   sigVars, edVars, worker_ref, ctl, epVars, passes>>

\* _on_finished, run for each finished signal delivered to the UI thread
OnFinished ==
    /\ ctl = "idle"
    /\ finished > hist.delivered
    /\ hist' = [hist EXCEPT !.delivered = hist.delivered + 1]
    /\ worker_ref' = FALSE
    /\ UNCHANGED <<fnVars, lifeVars, cfgVars, flagVars, wVars, sigVars,
                   edVars, ctl, cmds, epVars, passes>>

(***************************************************************************)
(* _run_replace: the passes                                                *)
(***************************************************************************)
\* the total over the original text alone
TotalWorkOldOnly(ops) ==
    LET w == SumSeq([n \in 1..Len(ops) |-> OldLen(ops[n])])
    IN  IF w = 0 THEN 1 ELSE w

\* sum(self._op_work(op) for op in self.diff_ops) or 1
TotalWork(ops) ==
    LET w == SumSeq([n \in 1..Len(ops) |-> op_work(ops[n])])
    IN  IF w = 0 THEN 1 ELSE w

TotalOldLen(ops) == SumSeq([n \in 1..Len(ops) |-> OldLen(ops[n])])

\* the index of the last op, whatever its kind
LastChangeIdxLastOp(ops) == Len(ops) - 1

\* the index of the first change in place of the last one
LastChangeIdxFirst(ops) ==
    LET changes == {n \in 1..Len(ops) :
                       /\ ops[n].kind # "equal"
                       /\ (ops[n].old_text # <<>> \/ ops[n].new_text # <<>>)}
    IN  IF changes = {} THEN -1
        ELSE (CHOOSE n \in changes : \A m \in changes : n <= m) - 1

\* index of the last op that is not Equal and has text, -1 if there is none
LastChangeIdx(ops) ==
    LET changes == {n \in 1..Len(ops) :
                       /\ ops[n].kind # "equal"
                       /\ (ops[n].old_text # <<>> \/ ops[n].new_text # <<>>)}
    IN  IF changes = {} THEN -1
        ELSE (CHOOSE n \in changes : \A m \in changes : m <= n) - 1

\* the op of the current iteration
CurOp == loc.ops[loc.i + 1]

ReplaceInit ==
    /\ pc = "rr_init"
    /\ loc' = [loc EXCEPT !.total_work = TotalWork(diff_ops),
                          !.total_old_len = TotalOldLen(diff_ops),
                          !.start_pos = Min(start_pos, TotalOldLen(diff_ops)),
                          !.prev_was_word = FALSE]
    /\ Goto("rr_head")
    /\ UNCHANGED <<fnVars, lifeVars, cfgVars, flagVars, words_since_pause,
                   cursor_pos, sigVars, edVars, ctlVars, epVars,
                   passes>>

\* while True: jump = self._consume_jump(), first half
ReplaceJumpRead ==
    /\ pc = "rr_head"
    /\ IF jump_to = None
          THEN Goto("rr_pass") /\ UNCHANGED loc
          ELSE Goto("rr_head2") /\ loc' = [loc EXCEPT !.jump = jump_to]
    /\ UNCHANGED <<fnVars, lifeVars, cfgVars, flagVars, words_since_pause,
                   cursor_pos, sigVars, edVars, ctlVars, epVars,
                   passes>>

\* _consume_jump, second half, and the new start position
ReplaceJumpSeek ==
    /\ pc = "rr_head2"
    /\ jump_to' = None
    /\ loc' = [loc EXCEPT !.start_pos = Min(loc.jump, loc.total_old_len),
                          !.prev_was_word = FALSE]
    /\ words_since_pause' = 0
    /\ Goto("rr_pass")
    /\ UNCHANGED <<fnVars, lifeVars, cfgVars, stopped, paused, skip,
                   pause_notified, start_pos, cursor_pos, sigVars,
                   edVars, ctlVars, epVars, passes>>

\* the progress a pass starts with
PassProgress(skipped_work, total_work) == Pct(skipped_work, total_work)

\* trim, cursor and progress of the pass, last_change_idx
ReplacePass ==
    /\ pc = "rr_pass"
    /\ LET t == trim_ops_for_start(diff_ops, loc.start_pos)
           ops == t[1]
           skipped_work == t[2]
           pct == PassProgress(skipped_work, loc.total_work)
           lci == LastChangeIdx(ops)
       IN  /\ loc' = [loc EXCEPT !.ops = ops, !.done = skipped_work,
                                 !.cursor_in_original = loc.start_pos,
                                 !.last_change_idx = lci, !.i = 0,
                                 !.restart = FALSE, !.jump = None]
           /\ EmitCursor(loc.start_pos)
           /\ EmitProgress(pct, IF loc.jump # None THEN "restart" ELSE "pass")
           /\ passes' = passes \cup {<<loc.start_pos, pct>>}
           /\ Goto(IF lci = -1 THEN "rr_nochange" ELSE "rr_op")
    /\ UNCHANGED <<fnVars, lifeVars, cfgVars, flagVars, words_since_pause,
                   finished, status, terminal, logs, pause_infos,
                   edVars, ctlVars, epVars>>

\* the return of the pass without the progress and the log entry
ReplaceNoChangeSilent ==
    /\ pc = "rr_nochange"
    /\ Return
    /\ UNCHANGED <<fnVars, lifeVars, cfgVars, flagVars, loc,
                   words_since_pause, cursor_pos, sigVars, edVars, ctlVars,
                   epVars, passes>>

\* no change left: progress 100, log "No changes detected", return
ReplaceNoChange ==
    /\ pc = "rr_nochange"
    /\ EmitProgress(100, "nochange")
    /\ logs' = logs \cup {"No changes detected. Ending early."}
    /\ Return
    /\ UNCHANGED <<fnVars, lifeVars, cfgVars, flagVars, loc,
                   words_since_pause, cursor_pos, finished, status,
                   terminal, cursor_sig, pause_infos, edVars, ctlVars,
                   epVars, passes>>

\* for i, op in enumerate(ops): if self._stopped: break
ReplaceOp ==
    /\ pc = "rr_op"
    /\ Goto(IF loc.i >= Len(loc.ops) \/ stopped THEN "rr_after" ELSE "rr_skip")
    /\ UNCHANGED <<fnVars, lifeVars, cfgVars, flagVars, loc,
                   words_since_pause, cursor_pos, sigVars, edVars,
                   ctlVars, epVars, passes>>

\* if self._skip: progress 100, cursor len(self.text), break
ReplaceSkip ==
    /\ pc = "rr_skip"
    /\ IF skip
          THEN /\ skip' = FALSE
               /\ EmitProgress(100, "skip")
               /\ EmitCursor(Len(text))
               /\ Goto("rr_after")
          ELSE /\ UNCHANGED <<skip, progVars, cursor_pos, cursor_sig>>
               /\ Goto("rr_jump")
    /\ UNCHANGED <<fnVars, lifeVars, cfgVars, stopped, paused, jump_to,
                   pause_notified, start_pos, loc, words_since_pause,
                   finished, status, terminal, logs, pause_infos,
                   edVars, ctlVars, epVars, passes>>

\* if self._jump_to is not None: restart; else self._handle_pause(cursor)
ReplaceJumpCheck ==
    /\ pc = "rr_jump"
    /\ IF jump_to # None
          THEN /\ loc' = [loc EXCEPT !.restart = TRUE]
               /\ Goto("rr_after")
          ELSE /\ loc' = [loc EXCEPT !.pos = loc.cursor_in_original]
               /\ Call("hp_check", "rr_kind")
    /\ UNCHANGED <<fnVars, lifeVars, cfgVars, flagVars, words_since_pause,
                   cursor_pos, sigVars, edVars, ctlVars, epVars,
                   passes>>

\* where the branch on op.kind goes
KindTarget(op) ==
    IF op.kind = "equal" THEN (IF is_bot THEN "eqb" ELSE "chl")
    ELSE IF op.kind = "delete" THEN (IF is_bot THEN "delb" ELSE "sel")
    ELSE IF op.kind = "insert" THEN "chl"
    ELSE (IF is_bot THEN "repb" ELSE "sel")

\* after the pause: if self._stopped: break; status; branch on op.kind
ReplaceKind ==
    /\ pc = "rr_kind"
    /\ IF stopped
          THEN Goto("rr_after") /\ UNCHANGED <<status, loc>>
          ELSE /\ status' = "Typing"
               /\ loc' = [loc EXCEPT !.k = 0]
               /\ Goto(KindTarget(CurOp))
    /\ UNCHANGED <<fnVars, lifeVars, cfgVars, flagVars, words_since_pause,
                   cursor_pos, finished, terminal, logs, progVars,
                   cursor_sig, pause_infos, edVars, ctlVars, epVars,
                   passes>>

\* the test with > in place of >=: one more op is processed
LastChangeDoneLate(i, last_change_idx) == i > last_change_idx

\* if i >= last_change_idx: break
LastChangeDone(i, last_change_idx) == i >= last_change_idx

ReplaceOpEnd ==
    /\ pc = "rr_opend"
    /\ IF LastChangeDone(loc.i, loc.last_change_idx)
          THEN Goto("rr_after") /\ UNCHANGED loc
          ELSE Goto("rr_op") /\ loc' = [loc EXCEPT !.i = loc.i + 1, !.k = 0]
    /\ UNCHANGED <<fnVars, lifeVars, cfgVars, flagVars, words_since_pause,
                   cursor_pos, sigVars, edVars, ctlVars, epVars,
                   passes>>

\* if self._stopped or not restart: break
ReplaceAfter ==
    /\ pc = "rr_after"
    /\ IF stopped \/ ~loc.restart THEN Return ELSE Goto("rr_head")
    /\ UNCHANGED <<fnVars, lifeVars, cfgVars, flagVars, loc,
                   words_since_pause, cursor_pos, sigVars, edVars,
                   ctlVars, epVars, passes>>

(***************************************************************************)
(* _run_replace: the ops in Bot mode                                       *)
(***************************************************************************)
\* Equal: jump and pause check before the bulk move
EqualBot ==
    /\ pc = "eqb"
    /\ IF Len(CurOp.new_text) = 0
          THEN /\ Goto(IF stopped THEN "rr_after" ELSE "rr_opend")
               /\ UNCHANGED loc
       ELSE IF jump_to # None
          THEN /\ loc' = [loc EXCEPT !.restart = TRUE]
               /\ Goto("eqb2")
       ELSE IF paused
          THEN /\ loc' = [loc EXCEPT !.pos = loc.cursor_in_original]
               /\ Call("hp_check", "eqb2")
       ELSE Goto("eqb2") /\ UNCHANGED loc
    /\ UNCHANGED <<fnVars, lifeVars, cfgVars, flagVars, words_since_pause,
                   cursor_pos, sigVars, edVars, ctlVars, epVars,
                   passes>>

\* if not restart and not self._stopped: press right n times; then
\* if restart or self._stopped: break
EqualBotPress ==
    /\ pc = "eqb2"
    /\ LET n == Len(CurOp.new_text)
       IN  IF ~loc.restart /\ ~stopped
              THEN /\ Inject(EdRepeat(Ed, n, "right"), Key("right", "", n))
                   /\ loc' = [loc EXCEPT
                                 !.cursor_in_original = loc.cursor_in_original + n,
                                 !.done = loc.done + n]
                   /\ EmitCursor(loc.cursor_in_original + n)
                   /\ EmitProgress(Pct(loc.done + n, loc.total_work), "op")
                   /\ Goto("rr_opend")
              ELSE /\ UNCHANGED <<edVars, loc, cursor_pos, cursor_sig,
                                  progVars>>
                   /\ Goto("rr_after")
    /\ UNCHANGED <<fnVars, lifeVars, cfgVars, flagVars, words_since_pause,
                   finished, status, terminal, logs, pause_infos,
                   ctlVars, epVars, passes>>

\* Delete: one bulk delete, no check
DeleteBot ==
    /\ pc = "delb"
    /\ LET n == Len(CurOp.old_text)
       IN  /\ IF n > 0 THEN Inject(EdRepeat(Ed, n, "delete"), Key("delete", "", n))
                       ELSE UNCHANGED edVars
           /\ loc' = [loc EXCEPT !.done = loc.done + n]
           /\ EmitCursor(loc.cursor_in_original)
           /\ EmitProgress(Pct(loc.done + n, loc.total_work), "op")
    /\ Goto("rr_opend")
    /\ UNCHANGED <<fnVars, lifeVars, cfgVars, flagVars, words_since_pause,
                   finished, status, terminal, logs, pause_infos,
                   ctlVars, epVars, passes>>

\* Replace: one bulk delete, then the new text is typed
ReplaceBot ==
    /\ pc = "repb"
    /\ LET n_del == Len(CurOp.old_text)
       IN  /\ IF n_del > 0 THEN Inject(EdRepeat(Ed, n_del, "delete"),
                                    Key("delete", "", n_del))
                           ELSE UNCHANGED edVars
           /\ loc' = [loc EXCEPT !.done = loc.done + n_del, !.k = 0]
    /\ Goto("chl")
    /\ UNCHANGED <<fnVars, lifeVars, cfgVars, flagVars, words_since_pause,
                   cursor_pos, sigVars, ctlVars, epVars, passes>>

(***************************************************************************)
(* _run_replace, Human mode: the select-forward loop of Delete and Replace *)
(* (use_select = not is_bot, so the one-by-one delete branch never runs)   *)
(***************************************************************************)
SelectLoop ==
    /\ pc = "sel"
    /\ IF loc.k >= Len(CurOp.old_text) \/ stopped
          THEN Goto("sel_end") /\ UNCHANGED loc
       ELSE IF jump_to # None
          THEN /\ loc' = [loc EXCEPT !.restart = TRUE]
               /\ Goto("sel_end")
       ELSE IF paused
          THEN /\ loc' = [loc EXCEPT !.pos = loc.cursor_in_original]
               /\ Call("hp_check", "sel2")
       ELSE Goto("sel_key") /\ UNCHANGED loc
    /\ UNCHANGED <<fnVars, lifeVars, cfgVars, flagVars, words_since_pause,
                   cursor_pos, sigVars, edVars, ctlVars, epVars,
                   passes>>

SelectAfterPause ==
    /\ pc = "sel2"
    /\ Goto(IF stopped THEN "sel_end" ELSE "sel_key")
    /\ UNCHANGED <<fnVars, lifeVars, cfgVars, flagVars, loc,
                   words_since_pause, cursor_pos, sigVars, edVars,
                   ctlVars, epVars, passes>>

\* pyautogui.hotkey("shift", "right"); sleep
SelectKey ==
    /\ pc = "sel_key"
    /\ Inject(EdShiftRight(Ed), Key("shift+right", "", 1))
    /\ loc' = [loc EXCEPT !.k = loc.k + 1, !.wait = "select"]
    /\ Call("wait", "sel")
    /\ UNCHANGED <<fnVars, lifeVars, cfgVars, flagVars, words_since_pause,
                   cursor_pos, sigVars, ctlVars, epVars, passes>>

\* Delete: after the loop, however it ended, pyautogui.press("delete")
DeleteHumanEnd ==
    /\ pc = "sel_end" /\ CurOp.kind = "delete"
    /\ LET n == Len(CurOp.old_text)
       IN  /\ Inject(EdDelete1(Ed), Key("delete", "", 1))
           /\ loc' = [loc EXCEPT !.done = loc.done + n]
           /\ EmitCursor(loc.cursor_in_original)
           /\ EmitProgress(Pct(loc.done + n, loc.total_work), "op")
    /\ Goto(IF loc.restart THEN "rr_after" ELSE "rr_opend")
    /\ UNCHANGED <<fnVars, lifeVars, cfgVars, flagVars, words_since_pause,
                   finished, status, terminal, logs, pause_infos,
                   ctlVars, epVars, passes>>

\* Replace: done += n_del, then the new text is typed over the selection
ReplaceHumanEnd ==
    /\ pc = "sel_end" /\ CurOp.kind = "replace"
    /\ loc' = [loc EXCEPT !.done = loc.done + Len(CurOp.old_text), !.k = 0]
    /\ Goto("chl")
    /\ UNCHANGED <<fnVars, lifeVars, cfgVars, flagVars, words_since_pause,
                   cursor_pos, sigVars, edVars, ctlVars, epVars,
                   passes>>

(***************************************************************************)
(* _run_replace: the character loops over op.new_text (Equal in Human      *)
(* mode, Insert, and the typing half of Replace)                           *)
(***************************************************************************)
CharLoop ==
    /\ pc = "chl"
    /\ IF loc.k >= Len(CurOp.new_text) \/ stopped
          THEN Goto("chl_end") /\ UNCHANGED loc
       ELSE IF jump_to # None
          THEN /\ loc' = [loc EXCEPT !.restart = TRUE]
               /\ Goto("chl_end")
       ELSE IF paused
          THEN /\ loc' = [loc EXCEPT !.pos = loc.cursor_in_original]
               /\ Call("hp_check", "chl2")
       ELSE Goto("chl_key") /\ UNCHANGED loc
    /\ UNCHANGED <<fnVars, lifeVars, cfgVars, flagVars, words_since_pause,
                   cursor_pos, sigVars, edVars, ctlVars, epVars,
                   passes>>

CharLoopAfterPause ==
    /\ pc = "chl2"
    /\ Goto(IF stopped THEN "chl_end" ELSE "chl_key")
    /\ UNCHANGED <<fnVars, lifeVars, cfgVars, flagVars, loc,
                   words_since_pause, cursor_pos, sigVars, edVars,
                   ctlVars, epVars, passes>>

\* Equal, Human mode: press right, cursor and done advance, sleep 0.3 delay
EqualHumanKey ==
    /\ pc = "chl_key" /\ CurOp.kind = "equal"
    /\ Inject(EdRight1(Ed), Key("right", "", 1))
    /\ loc' = [loc EXCEPT !.cursor_in_original = loc.cursor_in_original + 1,
                          !.done = loc.done + 1,
                          !.ch = CurOp.new_text[loc.k + 1], !.wait = "char"]
    /\ EmitCursor(loc.cursor_in_original + 1)
    /\ EmitProgress(Pct(loc.done + 1, loc.total_work), "op")
    /\ Call("wait", "chl_think")
    /\ UNCHANGED <<fnVars, lifeVars, cfgVars, flagVars, words_since_pause,
                   finished, status, terminal, logs, pause_infos,
                   ctlVars, epVars, passes>>

\* Insert and Replace: self._type_char(ch)
CharLoopType ==
    /\ pc = "chl_key" /\ CurOp.kind # "equal"
    /\ loc' = [loc EXCEPT !.ch = CurOp.new_text[loc.k + 1],
                          !.tch = CurOp.new_text[loc.k + 1]]
    /\ Call("tc", "chl_typed")
    /\ UNCHANGED <<fnVars, lifeVars, cfgVars, flagVars, words_since_pause,
                   cursor_pos, sigVars, edVars, ctlVars, epVars,
                   passes>>

\* done += 1; cursor stays; progress; sleep
CharLoopTyped ==
    /\ pc = "chl_typed"
    /\ loc' = [loc EXCEPT !.done = loc.done + 1, !.tch = "",
                          !.wait = WaitTag("char")]
    /\ EmitCursor(loc.cursor_in_original)
    /\ EmitProgress(Pct(loc.done + 1, loc.total_work), "op")
    /\ Sleep("chl_think")
    /\ UNCHANGED <<fnVars, lifeVars, cfgVars, flagVars, words_since_pause,
                   finished, status, terminal, logs, pause_infos,
                   edVars, ctlVars, epVars, passes>>

\* self._thinking_pause(ch)
CharLoopThink ==
    /\ pc = "chl_think"
    /\ IF ~is_bot /\ is_sentence_end(loc.ch)
          THEN /\ status' = "Thinking"
               /\ loc' = [loc EXCEPT !.wait = "think"]
               /\ Call("wait", "chl_word")
          ELSE Goto("chl_word") /\ UNCHANGED <<status, loc>>
    /\ UNCHANGED <<fnVars, lifeVars, cfgVars, flagVars, words_since_pause,
                   cursor_pos, finished, terminal, logs, progVars,
                   cursor_sig, pause_infos, edVars, ctlVars, epVars,
                   passes>>

\* word pause after a word, prev_was_word, next character
CharLoopWord ==
    /\ pc = "chl_word"
    /\ LET after_word == loc.ch \in whitespace /\ loc.prev_was_word /\ ~is_bot
           pw == loc.ch \notin whitespace
       IN  \E pause \in (IF after_word THEN {TRUE, FALSE} ELSE {FALSE}) :
             /\ words_since_pause' =
                    IF after_word THEN words_since_pause + 1 ELSE words_since_pause
             /\ IF pause
                   THEN /\ status' = "Thinking"
                        /\ loc' = [loc EXCEPT !.prev_was_word = pw, !.ch = "",
                                              !.k = loc.k + 1, !.wait = "word"]
                        /\ Call("wait", "chl")
                   ELSE /\ loc' = [loc EXCEPT !.prev_was_word = pw, !.ch = "",
                                              !.k = loc.k + 1]
                        /\ Goto("chl")
                        /\ UNCHANGED status
    /\ UNCHANGED <<fnVars, lifeVars, cfgVars, flagVars, cursor_pos, finished,
                   terminal, logs, progVars, cursor_sig, pause_infos,
                   edVars, ctlVars, epVars, passes>>

\* after the loop: if restart: break
CharLoopEnd ==
    /\ pc = "chl_end"
    /\ Goto(IF loc.restart THEN "rr_after" ELSE "rr_opend")
    /\ UNCHANGED <<fnVars, lifeVars, cfgVars, flagVars, loc,
                   words_since_pause, cursor_pos, sigVars, edVars,
                   ctlVars, epVars, passes>>

(***************************************************************************)
(* Sessions: what _on_start hands to TypingWorker                          *)
(***************************************************************************)
Session(m, t, o, bot, typo, delay, start) ==
    [mode |-> m, text |-> t, orig |-> o, bot |-> bot, typo |-> typo,
     delay |-> delay, start |-> start]

\* texts typed in Fresh sessions: a two-letter word; a sentence end, a word
\* boundary and a one-letter word
FreshTexts == {<<"a", "b">>, <<".", " ", "b">>}

\* <<original, replacement>> with every kind of op: Replace then a trailing
\* Equal; Delete, Equal, Insert
EditPairs == {<< <<"b", " ", "a">>, <<"c", " ", "a">> >>,
              << <<"a", " ">>, <<" ", "b">> >>}

\* <<original, replacement>> of Replace sessions: EditPairs and Replace, an
\* Equal of two characters, Insert
ReplacePairs == EditPairs \cup {<< <<"b", " ", "a">>, <<"c", " ", "a", " ">> >>}

\* <<bot, typo rate>>: Bot mode makes no typos
FreshModes == {<<TRUE, 0>>, <<FALSE, 0>>, <<FALSE, 50>>}

FreshSessions ==
    {Session("fresh", t, <<>>, m[1], m[2], delay, start) :
        t \in FreshTexts, m \in FreshModes, delay \in {0, MaxDelay},
        start \in {0, 1}}

ReplaceSessions ==
    {Session("replace", p[2], p[1], bot, 0, delay, start) :
        p \in ReplacePairs, bot \in BOOLEAN, delay \in {0, MaxDelay},
        start \in {0, 1}}

\* no helper has been called on its own
\* TypingWorker.__init__: _tempo = 1.0, the bias counters 0, _last_delay
\* None; tempo and variability in hundredths, delays in 1/10000 ms
Tempo0 ==
    [wpm |-> 60, variability |-> 50, tempo |-> 100, short_bias |-> 0,
     long_bias |-> 0, last_delay |-> None, calls |-> 0]

NoCall == [name |-> "", old |-> <<>>, new |-> <<>>, at |-> 0, ops |-> <<>>,
           ret |-> 0]

\* the state right after _on_start created and started the worker for s
InitSession(s) ==
    /\ mode = s.mode
    /\ text = s.text
    /\ orig = s.orig
    /\ diff_ops = (IF s.mode = "replace" /\ s.orig # <<>>
                      THEN compute_diff(s.orig, s.text) ELSE <<>>)
    /\ is_bot = s.bot
    /\ typo_rate = s.typo
    /\ start_delay = s.delay
    /\ stopped = FALSE /\ paused = FALSE /\ skip = FALSE
    /\ jump_to = None /\ pause_notified = FALSE
    /\ cursor_pos = 0
    /\ start_pos = Max(0, s.start)
    /\ words_since_pause = 0
    /\ pc = "run" /\ stack = <<>>
    /\ loc = [Loc0 EXCEPT !.cd = s.delay]
    /\ finished = 0 /\ status = "" /\ terminal = <<>>
    /\ progress = None /\ progress_prev_max = None /\ progress_at = ""
    /\ cursor_sig = None /\ pause_infos = 0
    /\ buf = (IF s.mode = "replace" THEN s.orig ELSE <<>>)
    /\ caret = (IF s.mode = "replace" THEN Min(s.start, Len(s.orig)) ELSE 0)
    /\ sel = 0 /\ keys = 0 /\ keylog = <<>> /\ jumped = <<>>
    /\ logs = {}
    /\ worker_ref = TRUE /\ ctl = "idle" /\ cmds = 0 /\ hist = Hist0
    /\ ep_notes = 0 /\ last_ep = NoEpisode
    /\ ep_blocked = FALSE /\ skip_while_paused = FALSE
    /\ passes = {}

\* MainWindow.__init__: self._worker = None; in the specifications of one
\* session the variables on the workers of the application stay this way
LifeInit ==
    /\ workers = <<>>
    /\ ui_worker = None
    /\ fin_queue = 0
    /\ start_rejected = FALSE

Init ==
    /\ LifeInit
    /\ cmd_budget = MaxCmds
    /\ log_keys = FALSE
    /\ fn = NoCall
    /\ tm = Tempo0
    /\ \E s \in FreshSessions \cup ReplaceSessions : InitSession(s)

(***************************************************************************)
(* Next-state relations                                                    *)
(***************************************************************************)
\* the steps shared by both modes that need neither a countdown nor a Stop
WorkerShared ==
    \/ RunBody \/ RunTail \/ RunFinally
    \/ WaitExpire \/ WaitPaused
    \/ HandlePauseCheck \/ HandlePauseNotify \/ HandlePauseSet
    \/ HandlePausePoll \/ HandlePauseReturn
    \/ TypeCharEntry \/ TypeCharAfterPause \/ TypeCharKey

WorkerCommon ==
    \/ RunCountdownStopped \/ RunCountdownTick \/ WaitStopped
    \/ WorkerShared

\* the steps of _run_fresh but the reseek of a jump
WorkerFreshNoJump ==
    \/ FreshInit \/ FreshLoop \/ FreshSkip
    \/ FastForwardLoop \/ FastForwardAfterPause \/ FastForwardTyped \/ FastForwardEnd
    \/ FreshJumpRead \/ FreshPause \/ FreshChar \/ FreshTyped
    \/ FreshThink \/ FreshWord
    \/ TypoRest \/ TypoRestTyped \/ TypoNotice \/ TypoBackspace \/ TypoFind
    \/ TypoRetype \/ TypoRetyped

WorkerFresh == FreshJumpSeek \/ WorkerFreshNoJump

\* the steps of _run_replace but the reseek of a jump
WorkerReplaceNoJump ==
    \/ ReplaceInit \/ ReplaceJumpRead \/ ReplacePass
    \/ ReplaceNoChange \/ ReplaceOp \/ ReplaceSkip \/ ReplaceJumpCheck
    \/ ReplaceKind \/ ReplaceOpEnd \/ ReplaceAfter
    \/ EqualBot \/ EqualBotPress \/ DeleteBot \/ ReplaceBot
    \/ SelectLoop \/ SelectAfterPause \/ SelectKey \/ DeleteHumanEnd
    \/ ReplaceHumanEnd
    \/ CharLoop \/ CharLoopAfterPause \/ EqualHumanKey \/ CharLoopType
    \/ CharLoopTyped \/ CharLoopThink \/ CharLoopWord \/ CharLoopEnd

WorkerReplace == ReplaceJumpSeek \/ WorkerReplaceNoJump

Worker == WorkerCommon \/ WorkerFresh \/ WorkerReplace

Controller ==
    \/ OnPause \/ OnPauseReset \/ OnStop \/ OnSkip \/ OnCursorMoved \/ OnFinished

Next == Worker \/ Controller

Spec == Init /\ [][Next]_vars

\* Fresh sessions alone
InitFresh ==
    /\ LifeInit
    /\ cmd_budget = MaxCmds
    /\ log_keys = FALSE
    /\ fn = NoCall
    /\ tm = Tempo0
    /\ \E s \in FreshSessions : InitSession(s)
NextFresh == WorkerCommon \/ WorkerFresh \/ Controller
SpecFresh == InitFresh /\ [][NextFresh]_vars

\* Replace sessions alone
InitReplace ==
    /\ LifeInit
    /\ cmd_budget = MaxCmds
    /\ log_keys = FALSE
    /\ fn = NoCall
    /\ tm = Tempo0
    /\ \E s \in ReplaceSessions : InitSession(s)
NextReplace == WorkerCommon \/ WorkerReplace \/ Controller
SpecReplace == InitReplace /\ [][NextReplace]_vars

(***************************************************************************)
(* Properties of a session                                                 *)
(***************************************************************************)
\* the worker left _run_fresh / _run_replace
AfterBody == pc \in {"run_tail", "finally", "exit"}

\* a progress value of 100 was emitted
Emitted100 == progress = 100 \/ progress_prev_max = 100

\* C1: the worker emits the completion notification exactly once per
\* session: never twice, and once when the thread has ended
C1_FinishedExactlyOnce ==
    /\ finished <= 1
    /\ (pc = "exit" => finished = 1)

\* C3: a pause episode during which the worker slept in the pause loop has
\* produced exactly one pause notification when it is resumed
C3_OneNotificationPerEpisode ==
    (last_ep.closed /\ last_ep.blocked) => last_ep.notes = 1

C6_SkipEndsAt100 ==
    (pc = "exit" /\ hist.skip /\ ~hist.stop)
        => (Emitted100 /\ terminal = <<"Done">>)

\* the worker is in the fast-forward of Fresh mode (or in a call made by it)
InFastForward ==
    \/ pc \in {"ff_loop", "ff_after", "ff_typed", "ff_end"}
    \/ \E n \in 1..Len(stack) : stack[n] \in {"ff_after", "ff_typed"}

\* a step of the Fresh worker at a character boundary: Stop first, then
\* Skip without touching the pending jump, then the jump before the pause
C7_BoundaryStep ==
    (mode = "fresh" /\ pc' # pc) =>
        /\ (pc = "rf_loop" /\ loc.idx < loc.total /\ stopped) => pc' = "run_tail"
        /\ (pc = "rf_skip" /\ skip)
              => (pc' = "ff_loop" /\ ~skip' /\ jump_to' = jump_to)
        /\ (pc = "rf_jump" /\ jump_to # None) => pc' = "rf_jump2"
        /\ (pc = "rf_jump2")
              => (pc' = "rf_loop" /\ loc'.idx = Min(loc.jump, loc.total))

\* once the worker left the loop on Stop or on Skip it types nothing more,
\* and from the moment it took the Skip it never consumes a jump
C7_AfterwardsStep ==
    /\ (mode = "fresh" /\ AfterBody) => keys' = keys
    /\ (mode = "fresh" /\ (InFastForward \/ AfterBody))
          => ~(jump_to # None /\ jump_to' = None)

\* the part of C7 on Pause: having taken the Skip while paused was set, the
\* worker does not sleep in the pause loop before the first fast-forward
\* keystroke
C7_SkipNeverBlocksInPause ==
    (mode = "fresh" /\ InFastForward /\ loc.j = loc.idx /\ skip_while_paused)
        => ~(pc = "hp_loop" /\ ep_blocked)

\* C7 as stated: Stop > Skip > Jump > Pause at every character boundary of
\* Fresh mode, a pending Skip neither consuming a jump nor blocking in pause
C7_FreshPriority ==
    /\ [][C7_BoundaryStep /\ C7_AfterwardsStep]_vars
    /\ []C7_SkipNeverBlocksInPause

\* C7 as amended: Stop > Skip > Jump > Pause at the boundary checks; with a
\* Skip pending the worker enters the fast-forward without consuming the jump
\* and without the boundary's pause check (the fast-forward itself still
\* blocks while paused before each character)
C7_FreshBoundaryPriority == [][C7_BoundaryStep /\ C7_AfterwardsStep]_vars

\* the worker fast-forwards while a jump is pending and paused is set
C7_Witness ==
    /\ mode = "fresh" /\ InFastForward /\ jump_to # None /\ paused
    /\ keys > 0

\* C8: in Replace mode a pending jump is not consumed while Stop or Skip is
\* pending: the worker does not read the jump target for a reseek then
C8_NoJumpWhileStopOrSkip ==
    [][(mode = "replace" /\ pc = "rr_head" /\ pc' = "rr_head2")
          => ~(stopped \/ skip)]_vars

(***************************************************************************)
(* Replace sessions over all short texts, from offset 0, run with Pause     *)
(* and Resume as the only commands                                         *)
(***************************************************************************)
Alphabet == {"a", "b", " "}

\* the texts of at most n characters
Texts(n) == UNION {[1..k -> Alphabet] : k \in 0..n}

\* the text is empty
IsEmpty(t) == t = <<>>

\* not text.strip()
IsBlank(t) == \A n \in 1..Len(t) : t[n] \in whitespace

\* _on_start runs _run_replace for a non-empty original, unless both texts
\* are blank
ScriptSessions ==
    {Session("replace", r, o, bot, 0, 0, 0) :
        o \in {t \in Texts(MaxLen) : t # <<>>}, r \in Texts(MaxLen),
        bot \in BOOLEAN}
    \ {s \in [mode : {"replace"}, text : Texts(MaxLen), orig : Texts(MaxLen),
               bot : BOOLEAN, typo : {0}, delay : {0}, start : {0}] :
          IsBlank(s.orig) /\ IsBlank(s.text)}

InitScripts ==
    /\ LifeInit
    /\ cmd_budget = MaxCmds - 1
    /\ log_keys = FALSE
    /\ fn = NoCall
    /\ tm = Tempo0
    /\ \E s \in ScriptSessions : InitSession(s)

NextScripts ==
    \/ WorkerShared \/ WorkerReplaceNoJump
    \/ OnPause \/ OnPauseReset \/ OnFinished

SpecScripts == InitScripts /\ [][NextScripts]_vars

\* C9: a Replace session from offset 0 with no Stop, Skip or Jump that has
\* run to completion left the editor buffer, which held the original text
\* with the caret at 0, holding exactly the replacement text
C9_ScriptYieldsReplacement ==
    (pc = "exit" /\ mode = "replace") => buf = text

\* a Human-mode session with a pause episode ended after it changed a text
\* of MaxLen characters into a different one with a trailing Equal op
C9_Witness ==
    /\ pc = "exit" /\ mode = "replace" /\ ~is_bot
    /\ last_ep.closed /\ last_ep.blocked
    /\ Len(orig) = MaxLen /\ text # orig /\ buf = text
    /\ diff_ops[Len(diff_ops)].kind = "equal"

(***************************************************************************)
(* Fresh sessions over all short texts, from every offset, with Pause,     *)
(* Resume and Skip as the only commands                                    *)
(***************************************************************************)
TypingSessions ==
    {Session("fresh", t, <<>>, m[1], m[2], 0, start) :
        t \in {x \in Texts(MaxLen) : ~IsBlank(x)},
        m \in FreshModes \cup {<<FALSE, 100>>}, start \in 0..MaxLen}

InitTyping ==
    /\ LifeInit
    /\ cmd_budget = MaxCmds
    /\ log_keys = FALSE
    /\ fn = NoCall
    /\ tm = Tempo0
    /\ \E s \in TypingSessions : s.start <= Len(s.text) /\ InitSession(s)

NextTyping ==
    \/ WorkerShared \/ WorkerFreshNoJump
    \/ OnPause \/ OnPauseReset \/ OnSkip \/ OnFinished

SpecTyping == InitTyping /\ [][NextTyping]_vars

\* C10: when a Fresh session from offset s with no Stop and no Jump has
\* emitted completion, the keystrokes injected so far, each backspace
\* removing the character typed before it, have produced text[s:]
C10_NetTextIsSuffix ==
    (finished >= 1 /\ mode = "fresh") => buf = From(text, Min(start_pos, Len(text)))

\* a session that made a typo and corrected it, and was paused and then
\* skipped, has emitted completion
C10_Witness ==
    /\ finished >= 1 /\ mode = "fresh"
    /\ keys > Len(text) - start_pos
    /\ hist.pause /\ hist.skip
    /\ buf = From(text, start_pos) /\ buf # <<>>

(***************************************************************************)
(* The worker thread keeps running: its next step is eventually taken.     *)
(* Nothing is assumed about the controller.  The sessions all start with   *)
(* the longest countdown, from offset 0.                                   *)
(***************************************************************************)
FairSessions ==
    {Session("fresh", <<"a", "b">>, <<>>, FALSE, 50, MaxDelay, 0),
     Session("fresh", <<".", " ", "b">>, <<>>, FALSE, 0, MaxDelay, 0)}
    \cup {Session("replace", p[2], p[1], bot, 0, MaxDelay, 0) :
              p \in EditPairs, bot \in BOOLEAN}

InitFair ==
    /\ LifeInit
    /\ cmd_budget = MaxCmds
    /\ log_keys = FALSE
    /\ fn = NoCall
    /\ tm = Tempo0
    /\ \E s \in FairSessions : InitSession(s)

FairSpec == InitFair /\ [][Next]_vars /\ WF_vars(Worker)

\* the worker is in one of its polling waits, or blocked in the pause loop
InWait == pc = "wait" \/ (pc = "hp_loop" /\ paused)

\* C4: once Stop is set while the worker is in the countdown, a character
\* delay, a thinking or word pause or the pause loop, the worker eventually
\* emits the completion notification, whatever the controller does or does
\* not do afterwards
C4_StopEndsEveryWait == (stopped /\ InWait) ~> (finished >= 1)

\* Pause then Stop were the only commands, the worker slept in the pause
\* loop, and it has ended with paused still set
C4_Witness ==
    /\ pc = "exit" /\ finished >= 1
    /\ stopped /\ paused /\ ep_blocked /\ cmds = 2

(***************************************************************************)
(* Replace sessions with nothing to change: the sessions of SpecReplace,   *)
(* some of which leave only Equal ops when trimmed, and sessions whose     *)
(* replacement text is the original text                                   *)
(***************************************************************************)
UnchangedSessions ==
    {Session("replace", p[1], p[1], bot, 0, delay, start) :
        p \in EditPairs, bot \in BOOLEAN, delay \in {0, MaxDelay},
        start \in {0, 1}}

InitNoChange ==
    /\ LifeInit
    /\ cmd_budget = MaxCmds
    /\ log_keys = FALSE
    /\ fn = NoCall
    /\ tm = Tempo0
    /\ \E s \in ReplaceSessions \cup UnchangedSessions : InitSession(s)

SpecNoChange == InitNoChange /\ [][NextReplace]_vars

\* the first pass of the session found no op that is not Equal and has text
FirstPassNoChange ==
    /\ mode = "replace" /\ Cardinality(passes) = 1
    /\ loc.last_change_idx = -1
    /\ pc \notin {"rr_pass", "rr_head", "rr_head2"}

\* what such a session does whatever its end: no keystroke, and progress 100
\* and the log entry once the pass has returned
NoChangeRun ==
    /\ keys = 0 /\ buf = orig
    /\ AfterBody => (Emitted100
                        /\ "No changes detected. Ending early." \in logs)
    /\ status # "Error" /\ "Error" \notin logs

\* C17: a Replace session whose script, trimmed at its start offset, has
\* no op that is not Equal and has text injects no keystroke, emits
\* progress 100 and the log entry "No changes detected", and ends as
\* Completed, never as Errored
C17_NoChangeEndsCompleted ==
    FirstPassNoChange
        => (NoChangeRun /\ (pc = "exit" => terminal = <<"Done">>))

\* C17 as amended: the same, the session ending as Completed unless a Stop
\* was requested before the terminal status, and then as Stopped
C17_NoChangeEndsCompletedOrStopped ==
    FirstPassNoChange
        => /\ NoChangeRun
           /\ (pc = "exit" /\ ~hist.stop) => terminal = <<"Done">>
           /\ (pc = "exit" /\ hist.stop)
                 => terminal \in {<<"Done">>, <<"Stopped">>}

\* a session whose script has a change before its start offset and none
\* after it has ended as Completed without a keystroke
C17_Witness ==
    /\ FirstPassNoChange /\ pc = "exit"
    /\ text # orig /\ loc.start_pos > 0
    /\ keys = 0 /\ terminal = <<"Done">> /\ progress = 100

(***************************************************************************)
(* Fresh sessions with the log of the injection calls: all short texts     *)
(* and the text "hi", from every offset, with Pause, Resume and Stop       *)
(***************************************************************************)
Hi == <<"h", "i">>

KeySessions ==
    TypingSessions \cup
    {Session("fresh", Hi, <<>>, m[1], m[2], 0, 0) : m \in FreshModes}

InitKeys ==
    /\ LifeInit
    /\ cmd_budget = MaxCmds - 1
    /\ log_keys = TRUE
    /\ fn = NoCall
    /\ tm = Tempo0
    /\ \E s \in KeySessions : s.start <= Len(s.text) /\ InitSession(s)

NextKeys ==
    \/ WorkerShared \/ WaitStopped
    \/ FreshInit \/ FreshLoop \/ FreshSkip \/ FreshJumpRead \/ FreshPause
    \/ FreshChar \/ FreshTyped \/ FreshThink \/ FreshWord
    \/ TypoRest \/ TypoRestTyped \/ TypoNotice \/ TypoBackspace \/ TypoFind
    \/ TypoRetype \/ TypoRetyped
    \/ OnPause \/ OnPauseReset \/ OnStop \/ OnFinished

SpecKeys == InitKeys /\ [][NextKeys]_vars

\* the injection call that types ch
Write(ch) == Key("write", ch, 1)
Backspace == Key("backspace", "", 1)

\* the first position at or after i that is the end of the text or holds
\* a whitespace character
EndOfWordAt(i) ==
    CHOOSE e \in i..Len(text) :
        /\ e = Len(text) \/ text[e + 1] \in whitespace
        /\ \A n \in i..(e - 1) : text[n + 1] \notin whitespace

\* the worker has retyped the word of a typo and no Stop was requested
CorrectionDone ==
    /\ mode = "fresh" /\ pc = "ty_re" /\ loc.j >= loc.word_end /\ ~stopped

\* the last 3 * (e - i) injection calls are: a character that is not
\* text[i]; text[i+1 .. e-1]; e - i backspaces; text[i .. e-1]; the call
\* before them, if any, typed text[i-1]
CorrectionCalls(i, e) ==
    LET d == e - i
        base == Len(keylog) - 3 * d
    IN  /\ d >= 1 /\ base >= 0
        /\ keylog[base + 1].key = "write"
        /\ keylog[base + 1].ch \in nearby_key(text[i + 1])
        /\ keylog[base + 1].ch # text[i + 1]
        /\ \A n \in 1..(d - 1) : keylog[base + 1 + n] = Write(text[i + n + 1])
        /\ \A n \in 1..d : keylog[base + d + n] = Backspace
        /\ \A n \in 1..d : keylog[base + 2 * d + n] = Write(text[i + n])
        /\ IF base = 0 THEN i = start_pos ELSE keylog[base] = Write(text[i])

\* C18: a typo at position i of a word ending at e, with no Stop during
\* the correction, is one wrong character, the e-i-1 remaining characters
\* of the word, exactly e-i backspaces and the characters i..e-1 retyped
\* as they are; the scan resumes at e; for "ab" at typo rate 100 the calls
\* are one wrong character, "b", two backspaces, "a", "b"
C18_TypoCorrection ==
    /\ [](CorrectionDone => CorrectionCalls(loc.idx, EndOfWordAt(loc.idx)))
    /\ [][(CorrectionDone /\ pc' # pc)
            => (pc' = "rf_loop"
                /\ loc'.idx = EndOfWordAt(loc.idx) /\ keylog' = keylog)]_vars
    /\ []((pc = "exit" /\ text = <<"a", "b">> /\ typo_rate = 100
           /\ start_pos = 0 /\ ~stopped)
            => /\ Len(keylog) = 6
               /\ keylog[1].ch \in {"q", "w", "s", "z"}
               /\ SubSeq(keylog, 2, 6) = <<Write("b"), Backspace, Backspace,
                                            Write("a"), Write("b")>>)

\* the correction of a typo on the first letter of "ab", during which the
\* session was paused and resumed, is complete
C18_Witness ==
    /\ CorrectionDone /\ text = <<"a", "b">> /\ typo_rate = 100
    /\ loc.idx = 0 /\ loc.word_end = 2 /\ hist.pause /\ ~paused
    /\ Len(keylog) = 6 /\ keylog[3] = Backspace /\ keylog[4] = Backspace

\* a Fresh session at typo rate 0 to which no command was issued
PlainFresh ==
    /\ mode = "fresh" /\ typo_rate = 0
    /\ ~hist.stop /\ ~hist.pause /\ ~hist.skip /\ ~hist.jump

\* one call per character of the text from the start offset, in text order
PlainCalls == [n \in 1..(Len(text) - start_pos) |-> Write(text[start_pos + n])]

\* C19: a Fresh session at typo rate 0 with no control request injects
\* exactly one keystroke per character of the text (from its start offset,
\* which is 0 when no cursor position was requested), in text order, and
\* no backspace, and ends as Completed; for "hi" the keystrokes are two
C19_OneKeystrokePerCharacter ==
    PlainFresh
        => /\ Len(keylog) <= Len(PlainCalls)
           /\ keylog = SubSeq(PlainCalls, 1, Len(keylog))
           /\ keys = Len(keylog)
           /\ pc = "exit"
                 => /\ keylog = PlainCalls
                    /\ terminal = <<"Done">>
                    /\ start_pos = 0 => Len(keylog) = Len(text)
                    /\ (text = Hi /\ start_pos = 0)
                          => keylog = <<Write("h"), Write("i")>>

\* the Human session on "hi" has ended with no command issued
C19_Witness ==
    /\ PlainFresh /\ ~is_bot /\ text = Hi /\ start_pos = 0
    /\ pc = "exit" /\ keys = 2 /\ terminal = <<"Done">>

(***************************************************************************)
(* Sessions of both modes at typo rates above 0, with the log of the       *)
(* injection calls and every command                                       *)
(***************************************************************************)
TypoRateSessions ==
    {Session("fresh", t, <<>>, FALSE, typo, MaxDelay, 0) :
        t \in FreshTexts, typo \in {50, 100}}
    \cup {Session("replace", p[2], p[1], bot, 100, MaxDelay, start) :
              p \in ReplacePairs, bot \in BOOLEAN, start \in {0, 1}}

InitTypoRates ==
    /\ LifeInit
    /\ cmd_budget = MaxCmds
    /\ log_keys = TRUE
    /\ fn = NoCall
    /\ tm = Tempo0
    /\ \E s \in TypoRateSessions : InitSession(s)

SpecTypoRates == InitTypoRates /\ [][Next]_vars

\* the injection call of this step
LastCall == keylog'[Len(keylog')]

\* in Replace mode the call is no backspace, and a typed character is the
\* next character of the new_text of the Insert or Replace op in progress
ReplaceCallIsScripted ==
    /\ LastCall.key # "backspace"
    /\ LastCall.key = "write"
         => /\ CurOp.kind \in {"insert", "replace"}
            /\ loc.k < Len(CurOp.new_text)
            /\ LastCall = Write(CurOp.new_text[loc.k + 1])

\* in Fresh mode a character typed in place of text[idx] and a backspace
\* belong to a typo on an alphabetic character, in Human mode at a typo
\* rate above 0; every other call types a character of the text
FreshCallIsTextOrTypo ==
    LET typo_call == LastCall.key = "backspace" \/ Head(stack) = "ty_rest"
    IN  /\ typo_call => (isalpha(text[loc.idx + 1]) /\ ~is_bot /\ typo_rate > 0)
        /\ LastCall.key = "backspace" => pc = "ty_bs"
        /\ (LastCall.key = "write" /\ Head(stack) # "ty_rest")
             => \E n \in 1..Len(text) : LastCall = Write(text[n])

Clamp(lo, hi, x) == Max(lo, Min(hi, x))

RareLetters == {"k", "j", "q", "x", "z"}
MediumLetters == {"c", "m", "f", "w", "y", "p", "v", "b", "g"}
CommonLetters == {"e", "t", "a", "o", "i", "n", "s", "h", "r", "d", "l", "u"}
DigitsAndSymbols == {"7", "@", "#", "$", "%", "&", "*", "_"}

\* the sum of the adjustments, before the clamp of the return statement
ComplexityFactor(ch, word_len) ==
    100 + (IF ch \in RareLetters THEN 25
           ELSE IF ch \in MediumLetters THEN 12
           ELSE IF ch \in CommonLetters THEN -5 ELSE 0)
        + (IF ch \in DigitsAndSymbols THEN 15 ELSE 0)
        + (IF word_len >= 12 THEN 25 ELSE IF word_len >= 8 THEN 15 ELSE 0)

\* _char_complexity(ch, word_len); ch = "" and word_len = 0 stand for None
char_complexity(ch, word_len) ==
    IF ch = "" THEN 100 ELSE Clamp(50, 180, ComplexityFactor(ch, word_len))

\* the bias counters after the comparison of _last_delay with base_delay
BiasAfter(t, base_delay) ==
    IF t.last_delay = None THEN t
    ELSE IF t.last_delay < base_delay * 8500
        THEN [t EXCEPT !.short_bias = t.short_bias + 1,
                       !.long_bias = Max(0, t.long_bias - 1)]
    ELSE IF t.last_delay > base_delay * 11500
        THEN [t EXCEPT !.long_bias = t.long_bias + 1,
                       !.short_bias = Max(0, t.short_bias - 1)]
    ELSE [t EXCEPT !.short_bias = Max(0, t.short_bias - 1),
                   !.long_bias = Max(0, t.long_bias - 1)]

\* the multiplier without its clamp
TempoMultUnclamped(tempo, complexity) == tempo * complexity

\* return max(0.5, min(1.5, self._tempo * complexity)), in 1/10000
TempoMult(tempo, complexity) == Clamp(5000, 15000, tempo * complexity)

\* _update_tempo(base_delay, complexity) with the drift drawn: the worker
\* state after the call and the multiplier returned
update_tempo(t, base_delay, complexity, drift) ==
    IF base_delay <= 0 THEN [t |-> t, mult |-> 10000]
    ELSE LET b == BiasAfter(t, base_delay)
             tempo == Clamp(50, 150, b.tempo + drift + 3 * b.short_bias
                                        - 3 * b.long_bias)
         IN  [t |-> [b EXCEPT !.tempo = tempo],
              mult |-> TempoMult(tempo, complexity)]

\* the Human branch of _char_delay with base_var drawn
HumanCharDelay(t, ch, word_len, base_var, drift) ==
    LET complexity == char_complexity(ch, word_len)
        u == update_tempo(t, base_var, complexity, drift)
    IN  [t |-> [u.t EXCEPT !.last_delay = base_var * u.mult],
         ret |-> base_var * u.mult]

\* _char_delay without its first statement
CharDelayNoBotGuard(t, bot, ch, word_len, base_var, drift) ==
    HumanCharDelay(t, ch, word_len, base_var, drift)

\* _char_delay(ch, word_len)
char_delay(t, bot, ch, word_len, base_var, drift) ==
    IF bot THEN [t |-> t, ret |-> 0]
    ELSE HumanCharDelay(t, ch, word_len, base_var, drift)

\* _scaled_delay(seconds), seconds given in ms
scaled_delay(t, bot, ms, drift) ==
    IF bot \/ Max(0, ms) = 0 THEN [t |-> t, ret |-> 0]
    ELSE LET u == update_tempo(t, Max(0, ms), 100, drift)
         IN  [t |-> [u.t EXCEPT !.last_delay = Max(0, ms) * u.mult],
              ret |-> Max(0, ms) * u.mult]

\* the inputs of the timing specification
Wpms == {60, 120}
Variabilities == {0, 50, 100}
DelayChars == {"", "k", "c", "e", "7", " "}
WordLens == {0, 1, 8, 12}
Drifts == {-4, 0, 4}
ScaledMs == {0, 40, 2000}

\* base = 60.0 / (wpm * 5.0), in ms
BaseDelay(wpm) == 12000 \div wpm

\* base * random.uniform(1.0 - v, 1.0 + v)
BaseVars(wpm, v) == {(BaseDelay(wpm) * f) \div 100 : f \in {100 - v, 100, 100 + v}}

InitTiming ==
    /\ LifeInit
    /\ cmd_budget = 0
    /\ log_keys = FALSE
    /\ fn = NoCall
    /\ \E bot \in BOOLEAN :
          InitSession(Session("fresh", <<"a", "b">>, <<>>, bot, 0, 0, 0))
    /\ \E wpm \in Wpms : \E v \in Variabilities : \E tempo \in {50, 100, 150} :
          tm = [Tempo0 EXCEPT !.wpm = wpm, !.variability = v, !.tempo = tempo]

\* delay = self._char_delay(ch, word_len)
CallCharDelay ==
    /\ tm.calls < MaxCalls
    /\ \E ch \in DelayChars : \E word_len \in WordLens :
       \E base_var \in BaseVars(tm.wpm, tm.variability) : \E drift \in Drifts :
          LET r == char_delay(tm, is_bot, ch, word_len, base_var, drift)
          IN  /\ tm' = [r.t EXCEPT !.calls = tm.calls + 1]
              /\ fn' = [name |-> "char_delay", ch |-> ch, word_len |-> word_len,
                        base_var |-> base_var, ret |-> r.ret]
    /\ UNCHANGED <<sessionVars, lifeVars>>

\* self._scaled_delay(seconds)
CallScaledDelay ==
    /\ tm.calls < MaxCalls
    /\ \E ms \in ScaledMs : \E drift \in Drifts :
          LET r == scaled_delay(tm, is_bot, ms, drift)
          IN  /\ tm' = [r.t EXCEPT !.calls = tm.calls + 1]
              /\ fn' = [name |-> "scaled_delay", ch |-> "", word_len |-> 0,
                        base_var |-> ms, ret |-> r.ret]
    /\ UNCHANGED <<sessionVars, lifeVars>>

NextTiming == CallCharDelay \/ CallScaledDelay

SpecTiming == InitTiming /\ [][NextTiming]_vars

\* the tempo, the bias counters and the last delay of the worker
TempoState(t) == <<t.tempo, t.short_bias, t.long_bias, t.last_delay>>

\* C21: in Bot mode _char_delay returns 0 for every character, word
\* length and option setting, and leaves tempo, the short and long bias
\* counters and the last delay as they were
C21_BotDelayIsZero ==
    [][(is_bot /\ tm'.calls = tm.calls + 1 /\ fn'.name = "char_delay")
         => (fn'.ret = 0 /\ TempoState(tm') = TempoState(tm))]_vars

\* a Bot worker whose tempo is not the initial one has computed the delay
\* of a rare letter in a long word
C21_Witness ==
    /\ is_bot /\ fn.name = "char_delay" /\ fn.ch = "k" /\ fn.word_len = 12
    /\ tm.wpm = 120 /\ tm.variability = 100 /\ tm.tempo = 150
    /\ fn.ret = 0

\* C22: in Human mode, for every speed, variability in [0, 1], character,
\* word length and prior tempo state, the delay _char_delay returns lies
\* between 0.5 and 1.5 times the jittered base delay, which lies between
\* base * (1 - variability) and base * (1 + variability) with
\* base = 60 / (wpm * 5), and the complexity factor lies in [0.5, 1.8]
C22_HumanDelayWithinTempoBounds ==
    (~is_bot /\ fn.name = "char_delay")
        => /\ 5000 * fn.base_var <= fn.ret
           /\ fn.ret <= 15000 * fn.base_var
           /\ BaseDelay(tm.wpm) * (100 - tm.variability) <= fn.base_var * 100
           /\ fn.base_var * 100 <= BaseDelay(tm.wpm) * (100 + tm.variability)
           /\ char_complexity(fn.ch, fn.word_len) \in 50..180
           /\ tm.last_delay = fn.ret /\ tm.tempo \in 50..150

\* a Human worker at the fastest tempo has computed the delay of a rare
\* letter in a long word, and the clamp of the multiplier was needed
C22_Witness ==
    /\ ~is_bot /\ fn.name = "char_delay" /\ fn.ch = "k" /\ fn.word_len = 12
    /\ tm.tempo = 150 /\ tm.calls = 2
    /\ fn.base_var > 0 /\ fn.ret = 15000 * fn.base_var

(***************************************************************************)
(* The thinking pause and the word pause among the delay computations.     *)
(* A pause sleeps in its own loop; whether it runs to its end or returns   *)
(* at a Stop is drawn.                                                     *)
(***************************************************************************)
\* a thinking pause that sleeps through _scaled_delay and restores nothing
ThinkingPauseCounted(t, bot, ch, completes) ==
    IF bot \/ ~is_sentence_end(ch) THEN t
    ELSE scaled_delay(t, bot, 2000, 0).t

\* _thinking_pause(ch): the timing state after the call
thinking_pause(t, bot, ch, completes) ==
    IF bot \/ ~is_sentence_end(ch) THEN t
    ELSE LET saved_last == t.last_delay
         IN  IF completes THEN [t EXCEPT !.last_delay = saved_last] ELSE t

\* _maybe_word_pause(): the timing state after the call
maybe_word_pause(t, bot, taken, completes) ==
    IF bot \/ ~taken THEN t
    ELSE LET saved_last == t.last_delay
         IN  IF completes THEN [t EXCEPT !.last_delay = saved_last] ELSE t

PauseChars == {".", "\n", "e"}

\* self._thinking_pause(ch)
CallThinkingPause ==
    /\ tm.calls < MaxCalls
    /\ \E ch \in PauseChars : \E completes \in BOOLEAN :
          /\ tm' = [thinking_pause(tm, is_bot, ch, completes)
                       EXCEPT !.calls = tm.calls + 1]
          /\ fn' = [name |-> "thinking_pause", ch |-> ch, word_len |-> 0,
                    base_var |-> 0, ret |-> 0,
                    ended |-> ~is_bot /\ is_sentence_end(ch) /\ completes]
          /\ status' = IF is_bot \/ ~is_sentence_end(ch) THEN status
                       ELSE IF completes THEN "Typing" ELSE "Thinking"
    /\ UNCHANGED <<cfgVars, flagVars, wVars, finished, terminal, logs,
                   progVars, cursor_sig, pause_infos, edVars, ctlVars, epVars,
                   passes, lifeVars>>

\* self._maybe_word_pause()
CallWordPause ==
    /\ tm.calls < MaxCalls
    /\ \E taken \in BOOLEAN : \E completes \in BOOLEAN :
          /\ tm' = [maybe_word_pause(tm, is_bot, taken, completes)
                       EXCEPT !.calls = tm.calls + 1]
          /\ fn' = [name |-> "maybe_word_pause", ch |-> "", word_len |-> 0,
                    base_var |-> 0, ret |-> 0,
                    ended |-> ~is_bot /\ taken /\ completes]
          /\ words_since_pause' =
                 IF is_bot THEN words_since_pause
                 ELSE IF taken /\ completes THEN 0
                 ELSE words_since_pause + 1
          /\ status' = IF is_bot \/ ~taken THEN status
                       ELSE IF completes THEN "Typing" ELSE "Thinking"
    /\ UNCHANGED <<cfgVars, flagVars, pc, stack, loc, cursor_pos, finished,
                   terminal, logs, progVars, cursor_sig, pause_infos, edVars,
                   ctlVars, epVars, passes, lifeVars>>

NextPauses ==
    CallCharDelay \/ CallScaledDelay \/ CallThinkingPause \/ CallWordPause

SpecPauses == InitTiming /\ [][NextPauses]_vars

\* a thinking or word pause ran to its end
PauseRanToEnd ==
    /\ tm'.calls = tm.calls + 1
    /\ fn'.name \in {"thinking_pause", "maybe_word_pause"}
    /\ fn'.ended

\* C37: after any sequence of char delay, scaled delay, thinking pause and
\* word pause calls tempo is within [0.5, 1.5] and the short and long bias
\* counters are not negative; a thinking or word pause that runs to its end
\* leaves the last delay, tempo and both counters as they were before it
C37_TempoBoundedPausesNeutral ==
    /\ [](tm.tempo \in 50..150 /\ tm.short_bias >= 0 /\ tm.long_bias >= 0)
    /\ [][PauseRanToEnd => TempoState(tm') = TempoState(tm)]_vars

\* a thinking pause ran to its end after a delay was computed that moved
\* tempo and set the last delay
C37_Witness ==
    /\ ~is_bot /\ fn.name = "thinking_pause" /\ fn.ended
    /\ tm.calls = 2 /\ tm.last_delay # None /\ tm.tempo \notin {50, 100, 150}

(***************************************************************************)
(* Sessions of both modes whose scripts have Replace and Delete ops of two *)
(* characters, so that a jump can land inside an op, under every command   *)
(***************************************************************************)
\* Replace("ab", "cb"); Delete("ab"), Equal(" "), Insert("c")
WidePairs == {<< <<"a", "b">>, <<"c", "b">> >>,
              << <<"a", "b", " ">>, <<" ", "c">> >>}

WideSessions ==
    {Session("fresh", <<"a", "b">>, <<>>, m[1], m[2], MaxDelay, 0) :
        m \in {<<TRUE, 0>>, <<FALSE, 50>>}}
    \cup {Session("replace", p[2], p[1], bot, 0, MaxDelay, 0) :
              p \in WidePairs, bot \in BOOLEAN}

InitWide ==
    /\ LifeInit
    /\ cmd_budget = MaxCmds
    /\ log_keys = FALSE
    /\ fn = NoCall
    /\ tm = Tempo0
    /\ \E s \in WideSessions : InitSession(s)

SpecWide == InitWide /\ [][Next]_vars

\* C23: every progress value the worker emits, in either mode and after
\* any sequence of pause, skip, jump and stop requests, jumps into the
\* middle of a Replace op and ops interrupted part-way included, is an
\* integer from 0 to 100
C23_ProgressWithinPercent ==
    progress # None => progress \in 0..100

\* a pass of a Replace session restarted by a jump into the middle of its
\* Replace op has emitted a progress value
C23_Witness ==
    /\ mode = "replace" /\ hist.jump /\ loc.start_pos = 1
    /\ Len(loc.ops) = 1 /\ loc.ops[1].kind = "replace"
    /\ loc.ops[1].old_text = <<"b">>
    /\ progress_at = "op" /\ progress \in 1..100

\* C24: every logical-cursor value the worker emits lies in
\* [0, len(original text)] in both modes, after any jump and skip requests;
\* in Replace mode the original text is the text the script was computed
\* from, not the replacement text
C24_CursorWithinOriginal ==
    cursor_sig # None => cursor_sig \in 0..Len(JumpText)

\* the number of the last op of the script that is not Equal and has
\* text, 0 when there is none
LastNonEqual(ops) ==
    LET S == {n \in 1..Len(ops) :
                 /\ ops[n].kind # "equal"
                 /\ ops[n].old_text # <<>> \/ ops[n].new_text # <<>>}
    IN  IF S = {} THEN 0 ELSE CHOOSE n \in S : \A k \in S : k <= n

\* the worker is at the end of the loop body of the op that contains the
\* last change of the script of the pass, or of a later op
PastLastChangeOp ==
    /\ mode = "replace" /\ pc = "rr_opend"
    /\ LastNonEqual(loc.ops) # 0 /\ loc.i + 1 >= LastNonEqual(loc.ops)

\* the worker is there, or has left the loop over the ops from there, or
\* has left _run_replace: the states the worker is in from then on
AfterLastChangeOp ==
    /\ mode = "replace"
    /\ \/ PastLastChangeOp
       \/ /\ pc = "rr_after" /\ ~loc.restart
          /\ LastNonEqual(loc.ops) # 0 /\ loc.i + 1 >= LastNonEqual(loc.ops)
       \/ AfterBody /\ diff_ops # <<>>

\* C26: in Replace mode, once the op that contains the last change that is
\* not Equal of the (possibly trimmed) script has been processed, no
\* keystroke is injected any more, so none for a trailing Equal op, and
\* the session completes
C26_TrailingEqualSkipped ==
    /\ [][AfterLastChangeOp => (AfterLastChangeOp' /\ keys' = keys)]_vars
    /\ PastLastChangeOp ~> (finished >= 1)

\* a Replace session whose script ends with an Equal op has ended as
\* Completed with the replacement text in the editor and the caret left
\* before the text of the trailing Equal op
C26_Witness ==
    /\ mode = "replace" /\ pc = "exit" /\ terminal = <<"Done">>
    /\ ~hist.skip /\ ~hist.jump
    /\ diff_ops[Len(diff_ops)].kind = "equal"
    /\ buf = text /\ caret = 1 /\ keys > 0

\* C27: in a Human Replace session each select-forward step of a Delete op
\* or of the delete half of a Replace op is preceded by a check of pause,
\* jump and skip: when one of them is pending at the check at the head of
\* the step, the worker acts on it and does not go on to the keystroke of
\* the step
C27_DeletionStepsChecked ==
    [][(mode = "replace" /\ ~is_bot /\ pc = "sel"
        /\ (paused \/ jump_to # None \/ skip))
          => pc' # "sel_key"]_vars

\* the select-forward loop of the op was left before its last step, at
\* the test of Stop or of the pending jump
SelectInterrupted ==
    /\ mode = "replace" /\ pc = "sel_end"
    /\ loc.restart \/ loc.k < Len(CurOp.old_text)

\* C28: once the worker has observed Stop or a pending Jump at a check
\* point it makes no further injection call for the op it was executing:
\* a Human Delete op (or delete half of a Replace op) whose select-forward
\* steps were interrupted by Stop or Jump does not go on to a keystroke
C28_NoKeystrokeAfterInterrupt ==
    [][SelectInterrupted => keys' = keys]_vars

\* C29: every completion notification is preceded by exactly one terminal
\* status, and the status matches how the session ended: Stopped only if
\* a Stop was requested, a Stop observed during the countdown included,
\* and Completed when no Stop was requested and no exception was raised
C29_OneTerminalStatusBeforeCompletion ==
    finished >= 1
        => /\ Len(terminal) = 1
           /\ terminal[1] = "Stopped" => hist.stop
           /\ ~hist.stop => terminal[1] = "Done"

(***************************************************************************)
(* Consumption of a jump in Fresh mode.  The sessions are Fresh sessions   *)
(* with the injection calls recorded; besides the cursor moves inside the  *)
(* text the controller makes one past its end.                             *)
(***************************************************************************)
JumpSessions ==
    {Session("fresh", <<"a", "b">>, <<>>, TRUE, 0, MaxDelay, 0),
     Session("fresh", <<"a", "b">>, <<>>, FALSE, 50, MaxDelay, 0),
     Session("fresh", <<".", " ", "b">>, <<>>, FALSE, 0, MaxDelay, 0)}

InitJump ==
    /\ LifeInit
    /\ cmd_budget = MaxCmds
    /\ log_keys = TRUE
    /\ fn = NoCall
    /\ tm = Tempo0
    /\ \E s \in JumpSessions : InitSession(s)

NextJump == WorkerCommon \/ WorkerFresh \/ Controller \/ OnCursorMovedPastEnd

SpecJump ==
    InitJump /\ [][NextJump]_vars /\ WF_vars(WorkerCommon \/ WorkerFresh)

\* the worker clears the jump target it read and reseeks
ConsumesJump == mode = "fresh" /\ pc = "rf_jump2" /\ pc' = "rf_loop"

\* what the consumption of a jump to p leaves behind
JumpConsumed(p) ==
    LET c == Min(Max(p, 0), Len(text))
    IN  /\ jump_to' = None
        /\ cursor_pos' = c /\ cursor_sig' = c
        /\ loc'.idx = c
        /\ words_since_pause' = 0

\* the last jump consumed since the last injection call
LastJumped == jumped[Len(jumped)]

\* a jump to the end of the text was consumed
JumpedToEnd == mode = "fresh" /\ jumped # <<>> /\ LastJumped = Len(text)

\* the first injection call after the consumption of one or more jumps
TypesAfterJump == mode = "fresh" /\ jumped # <<>> /\ keylog' # keylog

\* the wrong keys of a typo made on the character at offset p
TypoKeysAt(p) ==
    IF ~is_bot /\ typo_rate > 0 /\ isalpha(text[p + 1])
    THEN {Write(k) : k \in nearby_key(text[p + 1])}
    ELSE {}

\* C30 as stated: when the worker consumes a pending jump to offset p in
\* Fresh mode, the pending target becomes empty, the logical cursor and the
\* scan position become min(max(p, 0), len(text)), the words-since-pause
\* counter becomes 0, and the next character typed, if any, is
\* text[min(p, len(text))]; a jump to len(text) or beyond ends the session
\* as Completed without typing
C30_JumpConsumption ==
    /\ [][ConsumesJump => JumpConsumed(loc.jump)]_vars
    /\ [][TypesAfterJump
            => \A n \in 1..Len(jumped) :
                 /\ jumped[n] < Len(text)
                 /\ LastCall = Write(text[jumped[n] + 1])]_vars
    /\ [][JumpedToEnd => keylog' = keylog]_vars
    /\ [](JumpedToEnd /\ finished >= 1 => terminal = <<"Done">>)
    /\ JumpedToEnd ~> (finished >= 1)

\* C30, amended: the next character typed is the one at the offset of the
\* last jump consumed before it, or the wrong key of a typo made on that
\* character; a jump to len(text) or beyond ends the session without
\* typing, as Completed, or as Stopped when Stop was pressed as well
C30_JumpConsumptionTypoOrStop ==
    /\ [][ConsumesJump => JumpConsumed(loc.jump)]_vars
    /\ [][TypesAfterJump
            => /\ LastJumped < Len(text)
               /\ LastCall \in {Write(text[LastJumped + 1])}
                                  \cup TypoKeysAt(LastJumped)]_vars
    /\ [][JumpedToEnd => keylog' = keylog]_vars
    /\ [](JumpedToEnd /\ finished >= 1
            => \/ terminal = <<"Done">>
               \/ hist.stop /\ terminal = <<"Stopped">>)
    /\ JumpedToEnd ~> (finished >= 1)

\* a jump past the end of "ab" was consumed while paused and the session
\* ended as Completed with nothing typed after it; its target was clamped
C30_Witness ==
    /\ mode = "fresh" /\ text = <<"a", "b">>
    /\ start_pos = 3 /\ jumped = <<2>> /\ cursor_sig = 2 /\ jump_to = None
    /\ keylog = <<Write("a")>>
    /\ finished >= 1 /\ terminal = <<"Done">>

(***************************************************************************)
(* Jumps requested while the worker is blocked in the pause loop.  The     *)
(* controller moves the cursor only after the worker has polled the pause  *)
(* flag in the loop of _handle_pause; everything else is as in FairSpec.   *)
(***************************************************************************)
OnCursorMovedBlocked == pc = "hp_loop" /\ ep_blocked /\ OnCursorMoved

NextBlockedJump ==
    \/ Worker
    \/ OnPause \/ OnPauseReset \/ OnStop \/ OnSkip \/ OnCursorMovedBlocked
    \/ OnFinished

SpecBlockedJump == InitFair /\ [][NextBlockedJump]_vars

\* the offset the worker is at
WorkerOffset == IF mode = "fresh" THEN loc.idx ELSE loc.cursor_in_original

\* the worker was resumed with a jump to another offset still to be
\* consumed, and neither Stop nor Skip were pressed
ResumedBeforeReseek ==
    /\ jump_to # None /\ jump_to # WorkerOffset
    /\ ~paused /\ ~hist.stop /\ ~hist.skip

\* C31: a jump requested while the worker is blocked in a pause episode is
\* consumed, after the resume, before any further keystroke is injected: no
\* character and no right / delete keystroke of the position before the jump
C31_ReseekBeforeKeystroke ==
    [][ResumedBeforeReseek => keys' = keys]_vars

\* C32: no jump request is lost.  The pending jump target is emptied only
\* by the worker's consumption of the value it holds, so that the worker
\* reseeks to the most recently requested offset, however the controller's
\* writes interleave with the worker's read-then-clear
C32_NoJumpRequestLost ==
    [][(jump_to # None /\ jump_to' = None) => loc.jump = jump_to]_vars

\* an op of a pass was processed to its end, in a session without Stop,
\* Skip or jump
OpFullyProcessed ==
    /\ mode = "replace" /\ pc = "rr_opend"
    /\ ~hist.stop /\ ~hist.skip /\ ~hist.jump

\* C36: in Replace mode, in a pass with no jump, the logical cursor reported
\* after each fully processed op is the start offset of the pass plus the
\* lengths of the old texts of the ops processed so far: Equal, Delete and
\* Replace ops advance it by len(old_text), Insert ops leave it unchanged
C36_CursorFollowsOldText ==
    OpFullyProcessed
        => cursor_sig = loc.start_pos
                          + SumSeq([n \in 1..(loc.i + 1) |-> OldLen(loc.ops[n])])

\* C38: when the controller issues finitely many commands, every pause is
\* followed by a resume or a Stop and every injection call returns, every
\* started session, Fresh or Replace, with any jumps among the commands,
\* emits its completion: either the session stays paused without Stop for
\* ever, or finished is emitted
C38_EverySessionCompletes ==
    <>[](paused /\ ~stopped) \/ <>(finished >= 1)

\* a Replace session that was paused, made to jump and resumed, and never
\* stopped, ran a second pass and has emitted its completion
C38_Witness ==
    /\ mode = "replace" /\ finished >= 1 /\ pc = "exit"
    /\ hist.pause /\ hist.jump /\ ~hist.stop /\ ~paused
    /\ Cardinality(passes) >= 2

(***************************************************************************)
(* An injection call raises.  pyautogui raises from press, write and       *)
(* hotkey (its fail-safe, or the platform refusing the call); _type_char   *)
(* catches what write raises and presses the key instead, so it raises     *)
(* when press raises.  No code below _run catches the exception.           *)
(***************************************************************************)
\* the next step of the worker is an injection call
AtInjection ==
    \/ pc = "tc_key"
    \/ pc = "ty_bs" /\ loc.bs > 0 /\ ~stopped
    \/ pc = "eqb2" /\ ~loc.restart /\ ~stopped
    \/ pc = "delb" /\ Len(CurOp.old_text) > 0
    \/ pc = "repb" /\ Len(CurOp.old_text) > 0
    \/ pc = "sel_key"
    \/ pc = "sel_end" /\ CurOp.kind = "delete"
    \/ pc = "chl_key" /\ CurOp.kind = "equal"

\* the presses a call of press(key, presses=n) has made when it raises
PressesBeforeRaise ==
    IF pc = "eqb2" THEN 0..(Len(CurOp.new_text) - 1)
    ELSE IF pc \in {"delb", "repb"} THEN 0..(Len(CurOp.old_text) - 1)
    ELSE {0}

\* the handler returning to the statements after the call of the body
RaiseTargetTail == "run_tail"

\* where _run continues after  except Exception as exc:  the finally clause
RaiseTarget == "finally"

\* the call raises: except Exception as exc: status and log "Error: ..."
InjectionRaises ==
    /\ AtInjection
    /\ \E k \in PressesBeforeRaise :
         LET e == EdRepeat(Ed, k, IF pc = "eqb2" THEN "right" ELSE "delete")
         IN  /\ buf' = e.buf
             /\ caret' = e.caret
             /\ sel' = e.sel
    /\ status' = "Error"
    /\ terminal' = Append(terminal, "Error")
    /\ logs' = logs \cup {"Error"}
    /\ pc' = RaiseTarget
    /\ stack' = <<>>
    /\ UNCHANGED <<fnVars, lifeVars, cfgVars, flagVars, loc,
                   words_since_pause, cursor_pos, finished, progVars,
                   cursor_sig, pause_infos, keys, keylog, jumped, ctlVars,
                   epVars, passes>>

NextErr == Next \/ InjectionRaises

SpecErr == InitFair /\ [][NextErr]_vars

\* an error status has been emitted
Errored == \E n \in 1..Len(terminal) : terminal[n] = "Error"

\* once the error status is out the worker injects nothing and emits no
\* other terminal status
C16_ErroredStep ==
    Errored => (keys' = keys /\ buf' = buf /\ terminal' = terminal)

TheCatSat == <<"T", "h", "e", " ", "c", "a", "t", " ", "s", "a", "t", ".">>
TheDogSat == <<"T", "h", "e", " ", "d", "o", "g", " ", "s", "a", "t", ".">>

ScenarioSessions ==
    {Session("replace", p[2], p[1], bot, 0, 0, 0) :
        p \in EditPairs \cup {<<TheCatSat, TheDogSat>>, <<TheCatSat, TheCatSat>>},
        bot \in BOOLEAN}

InitScenario ==
    /\ LifeInit
    /\ cmd_budget = MaxCmds - 1
    /\ log_keys = TRUE
    /\ fn = NoCall
    /\ tm = Tempo0
    /\ \E s \in ScenarioSessions : InitSession(s)

SpecScenario == InitScenario /\ [][NextScripts]_vars

\* the script of the scenario
CatDogScript ==
    <<DiffOp("equal", <<"T", "h", "e", " ">>, <<"T", "h", "e", " ">>),
      DiffOp("replace", <<"c", "a", "t">>, <<"d", "o", "g">>),
      DiffOp("equal", <<" ", "s", "a", "t", ".">>, <<" ", "s", "a", "t", ".">>)>>

\* move-right 4, delete 3, write "dog"
CatDogKeys ==
    <<Key("right", "", 4), Key("delete", "", 3),
      Key("write", "d", 1), Key("write", "o", 1), Key("write", "g", 1)>>

\* the Bot-mode session of the scenario has ended and no command was issued
CatDogBotRunEnded ==
    /\ mode = "replace" /\ orig = TheCatSat /\ text = TheDogSat
    /\ is_bot /\ pc = "exit" /\ cmds = 0

FnTexts == Texts(MaxFnLen)

\* the script of a worker: _on_start passes  _compute_diff(orig, repl) if
\* orig else None, and the worker keeps  diff_ops or []
WorkerScript(original, replacement) ==
    IF original # <<>> THEN compute_diff(original, replacement) ELSE <<>>

\* sum(self._op_work(op) for op in ops)
WorkOf(ops) == SumSeq([n \in 1..Len(ops) |-> op_work(ops[n])])

\* "".join of the old_text / new_text of the ops that have one
OldTexts(ops) ==
    Concat([n \in 1..Len(ops) |->
               IF ops[n].kind \in {"equal", "delete", "replace"}
                   THEN ops[n].old_text ELSE <<>>])
NewTexts(ops) ==
    Concat([n \in 1..Len(ops) |->
               IF ops[n].kind \in {"equal", "insert", "replace"}
                   THEN ops[n].new_text ELSE <<>>])

InitFn ==
    /\ LifeInit
    /\ cmd_budget = 0
    /\ log_keys = FALSE
    /\ InitSession(Session("fresh", <<"a", "b">>, <<>>, TRUE, 0, 0, 0))
    /\ tm = Tempo0
    /\ \E o \in FnTexts : \E r \in FnTexts : \E at \in 0..Len(o) :
           fn = [NoCall EXCEPT !.old = o, !.new = r, !.at = at]

\* _compute_diff(original, replacement)
CallComputeDiff ==
    /\ fn.name = ""
    /\ fn' = [fn EXCEPT !.name = "compute_diff",
                        !.ops = compute_diff(fn.old, fn.new)]
    /\ UNCHANGED <<sessionVars, lifeVars, tm>>

\* worker._trim_ops_for_start(start_pos)
CallTrimOpsForStart ==
    /\ fn.name = ""
    /\ LET t == trim_ops_for_start(WorkerScript(fn.old, fn.new), fn.at)
       IN  fn' = [fn EXCEPT !.name = "trim_ops_for_start",
                            !.ops = t[1], !.ret = t[2]]
    /\ UNCHANGED <<sessionVars, lifeVars, tm>>

\* _map_old_index_to_new_index(old_text, new_text, old_index)
CallMapOldIndex ==
    /\ fn.name = ""
    /\ fn' = [fn EXCEPT !.name = "map_old_index_to_new_index",
                        !.ret = map_old_index_to_new_index(fn.old, fn.new,
                                                           fn.at)]
    /\ UNCHANGED <<sessionVars, lifeVars, tm>>

NextFn == CallComputeDiff \/ CallTrimOpsForStart \/ CallMapOldIndex

SpecFn == InitFn /\ [][NextFn]_vars

\* C11: in the script _compute_diff returns for a pair of texts, the
\* old_text of the Equal, Delete and Replace ops concatenated in order is
\* the original text, and the new_text of the Equal, Insert and Replace ops
\* concatenated in order is the replacement text
C11_ScriptCoversBothTexts ==
    fn.name = "compute_diff"
        => (OldTexts(fn.ops) = fn.old /\ NewTexts(fn.ops) = fn.new)

\* a script with a Replace, an Equal and an Insert op was computed
C11_Witness ==
    /\ fn.name = "compute_diff"
    /\ Len(fn.ops) = 3
    /\ fn.ops[1].kind = "replace" /\ fn.ops[2].kind = "equal"
    /\ fn.ops[3].kind = "insert"
    /\ OldTexts(fn.ops) = fn.old /\ NewTexts(fn.ops) = fn.new

\* C13: trimming a script at start offset 0 returns the same ops in the
\* same order and a skipped work of 0
C13_TrimAtZeroIsIdentity ==
    (fn.name = "trim_ops_for_start" /\ fn.at = 0)
        => (fn.ops = WorkerScript(fn.old, fn.new) /\ fn.ret = 0)

\* a script that begins with an Insert op was trimmed at offset 0
C13_Witness ==
    /\ fn.name = "trim_ops_for_start" /\ fn.at = 0
    /\ fn.ops # <<>> /\ fn.ops[1].kind = "insert"
    /\ fn.ret = 0

C15_EndsMapToEnds ==
    fn.name = "map_old_index_to_new_index" =>
        /\ (fn.at = 0 => fn.ret = 0)
        /\ (fn.at = Len(fn.old) => fn.ret = Len(fn.new))

\* C15 as amended: index 0 maps to 0 for all texts; the length of the old
\* text maps to the length of the new text when the old text is not empty
\* or both texts are
C15_EndsMapToEndsOfNonEmpty ==
    fn.name = "map_old_index_to_new_index" =>
        /\ (fn.at = 0 => fn.ret = 0)
        /\ (fn.at = Len(fn.old) /\ (fn.old # <<>> \/ fn.new = <<>>)
               => fn.ret = Len(fn.new))

\* the length of a non-empty text was mapped into a longer text that begins
\* with another character
C15_Witness ==
    /\ fn.name = "map_old_index_to_new_index"
    /\ fn.at = Len(fn.old) /\ fn.old # <<>> /\ Len(fn.new) > Len(fn.old)
    /\ fn.new[1] # fn.old[1] /\ fn.ret = Len(fn.new)

\* C33: for every script and every start offset in 0..len(original), the
\* skipped work plus the work of the remaining ops is the work of the whole
\* script, also when the offset falls inside an Equal, Delete or Replace op
C33_TrimConservesWork ==
    fn.name = "trim_ops_for_start"
        => fn.ret + WorkOf(fn.ops) = WorkOf(WorkerScript(fn.old, fn.new))

\* a script was trimmed inside a Replace op, part of whose new text was
\* skipped with part of its old text
C33_Witness ==
    /\ fn.name = "trim_ops_for_start" /\ fn.at > 0
    /\ LET script == WorkerScript(fn.old, fn.new)
       IN  /\ script # <<>> /\ script[1].kind = "replace"
           /\ fn.at < Len(script[1].old_text)
           /\ fn.ops # <<>> /\ fn.ops[1].kind = "replace"
           /\ Len(fn.ops[1].new_text) < Len(script[1].new_text)
           /\ fn.ret > fn.at
           /\ fn.ret + WorkOf(fn.ops) = WorkOf(script)

\* the offset in the original text at which op n of a script is located
OpOffset(ops, n) == SumSeq([m \in 1..(n - 1) |-> OldLen(ops[m])])

\* op n of the script is among the ops the trim returned: they are a suffix
\* of the script but for a sliced first op
KeptByTrim(script, n, kept) == Len(script) - n < Len(kept)

\* C35: trim treats only the ops before the start offset as skipped.  An
\* Insert op located at original offset p is among the ops returned for
\* every start offset s <= p, s = p > 0 included, as it is for s = 0
C35_InsertAtStartKept ==
    fn.name = "trim_ops_for_start"
        => LET script == WorkerScript(fn.old, fn.new)
           IN  \A n \in 1..Len(script) :
                   (script[n].kind = "insert" /\ fn.at <= OpOffset(script, n))
                       => /\ KeptByTrim(script, n, fn.ops)
                          /\ fn.ops[Len(fn.ops) - (Len(script) - n)] = script[n]

(***************************************************************************)
(* _trim_ops_for_start called on the script a worker stores.  The worker   *)
(* is the one _on_start creates in Replace mode for a pair of texts; the   *)
(* call is the one a pass makes for a start offset.                        *)
(***************************************************************************)
InitTrim ==
    /\ LifeInit
    /\ cmd_budget = 0
    /\ log_keys = FALSE
    /\ tm = Tempo0
    /\ \E o \in FnTexts : \E r \in FnTexts : \E at \in 0..Len(o) :
          /\ InitSession(Session("replace", r, o, TRUE, 0, 0, 0))
          /\ fn = [NoCall EXCEPT !.old = o, !.new = r, !.at = at]

\* a call that stores the trimmed ops as the worker's script
CallTrimStoredInPlace ==
    /\ fn.name = ""
    /\ LET t == trim_ops_for_start(diff_ops, fn.at)
       IN  /\ fn' = [fn EXCEPT !.name = "trim_ops_for_start",
                               !.ops = t[1], !.ret = t[2]]
           /\ diff_ops' = t[1]
    /\ UNCHANGED <<mode, text, orig, is_bot, typo_rate, start_delay,
                   cmd_budget, log_keys, flagVars, wVars, sigVars, edVars,
                   ctlVars, epVars, passes, lifeVars, tm>>

\* ops, skipped_work = self._trim_ops_for_start(start_pos)
CallTrimStored ==
    /\ fn.name = ""
    /\ LET t == trim_ops_for_start(diff_ops, fn.at)
       IN  fn' = [fn EXCEPT !.name = "trim_ops_for_start",
                            !.ops = t[1], !.ret = t[2]]
    /\ UNCHANGED <<sessionVars, lifeVars, tm>>

NextTrim == CallTrimStored

SpecTrim == InitTrim /\ [][NextTrim]_vars

\* C34: for every script over an original text and every start offset in
\* 0..len(original), the old texts of the Equal, Delete and Replace ops
\* that trim returns, concatenated, are original[offset:], and the script
\* the worker stores is the same after the call as before
C34_TrimKeepsRestOfOriginal ==
    /\ fn.name = "trim_ops_for_start" => OldTexts(fn.ops) = From(orig, fn.at)
    /\ diff_ops = WorkerScript(orig, text)

\* a stored script was trimmed inside a Delete op: the ops returned are
\* fewer or shorter than the stored ones
C34_Witness ==
    /\ fn.name = "trim_ops_for_start" /\ fn.at > 0 /\ fn.at < Len(orig)
    /\ diff_ops[1].kind = "delete" /\ fn.at < Len(diff_ops[1].old_text)
    /\ fn.ops[1].kind = "delete"
    /\ OldTexts(fn.ops) = From(orig, fn.at)
    /\ fn.ops # diff_ops /\ diff_ops = WorkerScript(orig, text)

(***************************************************************************)
(* The workers of one run of the application: _on_start, _on_stop and      *)
(* _on_finished of the main window, and of each worker the countdown, the  *)
(* typing as one step, and the finished signals.  A finished signal is     *)
(* emitted on the worker's thread and handled later on the UI thread.      *)
(***************************************************************************)
NewWorker(delay) == [pc |-> "run", cd |-> delay, stopped |-> FALSE]

\* _on_start: return while self._worker is not None, else create the worker,
\* keep it in self._worker and start its thread
LifeOnStart ==
    /\ IF ui_worker # None
          THEN /\ start_rejected' = TRUE
               /\ UNCHANGED <<workers, ui_worker>>
          ELSE /\ Len(workers) < MaxWorkers
               /\ \E delay \in 0..MaxDelay :
                      workers' = Append(workers, NewWorker(delay))
               /\ ui_worker' = Len(workers) + 1
               /\ UNCHANGED start_rejected
    /\ UNCHANGED <<fin_queue, sessionVars, fnVars>>

\* _on_stop: if self._worker: self._worker.stop()
LifeOnStop ==
    /\ ui_worker # None
    /\ workers' = [workers EXCEPT ![ui_worker].stopped = TRUE]
    /\ UNCHANGED <<ui_worker, fin_queue, start_rejected, sessionVars, fnVars>>

\* _on_finished for one delivered finished signal: self._worker = None
LifeOnFinished ==
    /\ fin_queue > 0
    /\ fin_queue' = fin_queue - 1
    /\ ui_worker' = None
    /\ UNCHANGED <<workers, start_rejected, sessionVars, fnVars>>

\* _run, countdown: if self._stopped: self.signals.finished.emit(); return
LifeCountdownStopped(w) ==
    /\ workers[w].pc = "run" /\ workers[w].cd > 0 /\ workers[w].stopped
    /\ fin_queue' = fin_queue + 1
    /\ workers' = [workers EXCEPT ![w].pc = "finally"]
    /\ UNCHANGED <<ui_worker, start_rejected, sessionVars, fnVars>>

\* _run, countdown: status "Starting in i", self._sleep(1)
LifeCountdownTick(w) ==
    /\ workers[w].pc = "run" /\ workers[w].cd > 0 /\ ~workers[w].stopped
    /\ workers' = [workers EXCEPT ![w].cd = @ - 1]
    /\ UNCHANGED <<ui_worker, fin_queue, start_rejected, sessionVars, fnVars>>

\* _run after the countdown: status "Typing", _run_replace or _run_fresh
LifeBody(w) ==
    /\ workers[w].pc = "run" /\ workers[w].cd = 0
    /\ workers' = [workers EXCEPT ![w].pc = "body"]
    /\ UNCHANGED <<ui_worker, fin_queue, start_rejected, sessionVars, fnVars>>

\* _run_replace or _run_fresh returns, status "Done" or "Stopped"
LifeBodyEnd(w) ==
    /\ workers[w].pc = "body"
    /\ workers' = [workers EXCEPT ![w].pc = "finally"]
    /\ UNCHANGED <<ui_worker, fin_queue, start_rejected, sessionVars, fnVars>>

\* _run, finally: self.signals.finished.emit(), and the thread ends
LifeFinally(w) ==
    /\ workers[w].pc = "finally"
    /\ fin_queue' = fin_queue + 1
    /\ workers' = [workers EXCEPT ![w].pc = "exit"]
    /\ UNCHANGED <<ui_worker, start_rejected, sessionVars, fnVars>>

\* the application starts with no worker; the variables of the session
\* model are not used
InitCtl ==
    /\ LifeInit
    /\ cmd_budget = 0
    /\ log_keys = FALSE
    /\ fn = NoCall
    /\ tm = Tempo0
    /\ InitSession(Session("fresh", <<"a", "b">>, <<>>, TRUE, 0, 0, 0))

NextCtl ==
    \/ LifeOnStart \/ LifeOnStop \/ LifeOnFinished
    \/ \E w \in 1..Len(workers) :
          \/ LifeCountdownStopped(w) \/ LifeCountdownTick(w)
          \/ LifeBody(w) \/ LifeBodyEnd(w) \/ LifeFinally(w)

SpecCtl == InitCtl /\ [][NextCtl]_vars

(***************************************************************************)
(* _on_start with the texts of the window: the guard on a running worker,  *)
(* the test of blank texts, the creation of the worker                     *)
(***************************************************************************)
StartTexts == {<<>>, <<" ">>, <<" ", "a">>}

\* the texts make _on_start log "No text to type." and return
BlankStart(is_replace, your_text, original, repl) ==
    IF is_replace THEN IsBlank(original) /\ IsBlank(repl)
    ELSE IsBlank(your_text)

\* _on_start; fn keeps the arguments of the last Start, what it did, and
\* whether a Start before it found blank texts
LifeOnStartTexts ==
    \E is_replace \in BOOLEAN : \E your_text \in StartTexts :
    \E o \in StartTexts : \E r \in StartTexts :
       LET blank == BlankStart(is_replace, your_text, o, r)
           outcome == IF ui_worker # None THEN "busy"
                      ELSE IF blank THEN "no text" ELSE "started"
       IN  /\ (is_replace => your_text = <<>>)
           /\ (~is_replace => (o = <<>> /\ r = <<>>))
           /\ fn' = [name |-> "on_start", is_replace |-> is_replace,
                     your_text |-> your_text, original |-> o, repl |-> r,
                     outcome |-> outcome,
                     after_blank |-> (fn.name = "on_start"
                                       /\ (fn.outcome = "no text"
                                            \/ fn.after_blank))]
           /\ IF outcome = "busy"
                 THEN /\ start_rejected' = TRUE
                      /\ UNCHANGED <<workers, ui_worker>>
              ELSE IF outcome = "no text"
                 THEN UNCHANGED <<workers, ui_worker, start_rejected>>
              ELSE /\ Len(workers) < MaxWorkers - 1
                   /\ \E delay \in 0..MaxDelay :
                          workers' = Append(workers, NewWorker(delay))
                   /\ ui_worker' = Len(workers) + 1
                   /\ UNCHANGED start_rejected
           /\ UNCHANGED <<fin_queue, sessionVars, tm>>

\* the steps of the other handlers and of the workers leave fn as it is,
\* so LifeOnStop and the like are used as they are
NextStart ==
    \/ LifeOnStartTexts \/ LifeOnStop \/ LifeOnFinished
    \/ \E w \in 1..Len(workers) :
          \/ LifeCountdownStopped(w) \/ LifeCountdownTick(w)
          \/ LifeBody(w) \/ LifeBodyEnd(w) \/ LifeFinally(w)

SpecStart == InitCtl /\ [][NextStart]_vars

\* the texts of the Start call c are empty or of whitespace only: the one
\* text of Fresh mode, or both texts of Replace mode
OnlyWhitespace(t) == \A n \in 1..Len(t) : t[n] \in {" ", "\n", "\t"}
BlankTexts(c) ==
    IF c.is_replace THEN OnlyWhitespace(c.original) /\ OnlyWhitespace(c.repl)
    ELSE OnlyWhitespace(c.your_text)

\* C25: a Start with blank text in Fresh mode, or with both texts blank in
\* Replace mode, creates no worker and injects no keystroke (there is no
\* worker thread of its own to inject one), and leaves the controller able
\* to accept a later Start: _worker stays None, and the next Start with
\* text creates a worker
C25_BlankStartCreatesNoWorker ==
    /\ [][(fn'.name = "on_start" /\ fn' # fn /\ BlankTexts(fn'))
            => (workers' = workers /\ ui_worker' = ui_worker
                /\ keys' = keys /\ keylog' = keylog
                /\ (ui_worker = None => fn'.outcome = "no text"))]_vars
    /\ [][(fn.name = "on_start" /\ fn.outcome = "no text"
            /\ fn'.name = "on_start" /\ ~BlankTexts(fn'))
            => (fn'.outcome = "started" /\ Len(workers') = Len(workers) + 1
                /\ ui_worker' = Len(workers'))]_vars
    /\ []((fn.name = "on_start" /\ fn.outcome = "no text")
            => ui_worker = None)

\* a Start with text that came after a Start with blank Replace texts has
\* created the first worker
C25_Witness ==
    /\ fn.name = "on_start" /\ fn.outcome = "started" /\ fn.after_blank
    /\ Len(workers) = 1 /\ ui_worker = 1

\* a live worker has not yet left its countdown or its typing
LiveWorkers == {w \in 1..Len(workers) : workers[w].pc \in {"run", "body"}}

\* C2: at most one worker is live at any time, whatever the interleaving of
\* Start and Stop requests with the deliveries of finished signals
C2_AtMostOneLiveWorker == Cardinality(LiveWorkers) <= 1

====
